---- MODULE Spec2Model ----
(***************************************************************************)
(* v4v-analytics: the transaction fetch pipeline (lib/transactions.js),    *)
(* the snapshot cache (lib/cache.js) and the commands that own a wallet    *)
(* client (report, dashboard /api/data, cache --rebuild, fetchV4VData).    *)
(*                                                                         *)
(* A timestamp field that is absent (undefined, null) is written 0: the    *)
(* code reads every timestamp through `a || b || 0`, which cannot tell an  *)
(* absent field from a zero one.                                           *)
(***************************************************************************)
EXTENDS Integers, Sequences, FiniteSets, TLC

VARIABLES
  snapshot,         \* the snapshot file CONFIG.paths.cache
  now,              \* wall clock, one tick per command
  cmd,              \* the command that owns the client
  cmdpc,            \* "none", "running", or how the command ended
  clientCreated,    \* createClient() returned a client
  closeCalls,       \* number of client.close() calls of this command
  config,           \* CONFIG of the command's process: which settings are set
  pc,               \* position of fetchTransactions
  cached,           \* fetchTransactions: const cached
  newTransactions,  \* fetchTransactions: const newTransactions
  offset,           \* fetchTransactions: let offset
  batchCount,       \* fetchTransactions: let batchCount
  retries,          \* fetchTransactions: let retries
  result,           \* the list fetchTransactions returned
  err,              \* the error fetchTransactions threw
  preSnapshot,      \* history: the snapshot when fetchTransactions was called
  attempts,         \* history: listTransactions calls made for the current offset
  lastErr,          \* history: the last error listTransactions threw
  gaveUp,           \* history: the retry loop ran out of retries
  writeOk,          \* history: the writeFileSync of this fetch succeeded
  waited,           \* history: the backoff wait in progress, in ms
  issued,           \* history: the listTransactions requests of this fetch
  handled,          \* history: the responses this fetch has processed
  received,         \* history: the records in those responses
  lastBatch,        \* history: length and lowest timestamps of the last response
  wallet,           \* SpecIdem: the wallet's fixed listing
  runs,             \* SpecIdem: fetches started
  firstLeft,        \* SpecIdem: the snapshot the first run left
  firstWriteOk,     \* SpecIdem: the first run's write succeeded
  firstResult,      \* SpecIdem: the list the first run returned
  initialFile,      \* SpecIdem: the snapshot before the first run
  handlers,         \* SpecDash: the /api/data requests being served
  tick,             \* SpecDash: fetchTransactions calls started so far
  lastWriterStart,  \* SpecDash: history: the tick of the fetch that wrote the snapshot
  overwrote,        \* SpecDash: history: a fetch wrote over a later starter's snapshot
  titlesFile,       \* SpecTitles: the titles file CONFIG.paths.titlesCache
  tnow,             \* SpecTitles: Date.now()
  tpc,              \* SpecTitles: position of fetchEssayTitles
  titlesResult,     \* SpecTitles: what fetchEssayTitles returned
  refreshFailed,    \* SpecTitles: history: fetchRss or parseRss threw in this call
  loaded,           \* SpecTitles: the last loadTitlesCache call: file, time and result
  disk,             \* SpecLoad, SpecSave: the snapshot file, chunk by chunk
  savePc,           \* SpecSave: position of writeFileSync
  fileRead,         \* SpecLoad, SpecSave: the file as the last load found it
  observed,         \* SpecLoad, SpecSave: what the last load returned
  envMaxBatches,    \* SpecConfig: V4V_MAX_BATCHES in the environment
  configMaxBatches, \* SpecConfig: CONFIG.maxBatches, 0 before the module is loaded
  requested,        \* SpecConfig: batches a fetch has requested
  clearLog,         \* SpecClear: the saves and clears so far, and what was seen after each
  siteUrl,          \* SpecReport: CONFIG.siteUrl
  reportTxs,        \* SpecReport: the list handed to the transformer
  called,           \* SpecReport: the transformer that ran last
  summary,          \* SpecReport: what buildSummary returned
  byEssay,          \* SpecReport: what aggregateByEssay returned, in Map order
  byPeriod,         \* SpecReport: what aggregateByPeriod returned, in Map order
  mode,             \* SpecReport: the sortBy or period argument
  tzOffset,         \* SpecReport: the process's time zone, east of UTC
  outFormat,        \* SpecReport: the output format of the report
  comparison,       \* SpecReport: the period comparison that was put out
  described,        \* SpecReport: the description handed to parseEssaySlug
  parsed,           \* SpecReport: what parseEssaySlug returned
  filtered,         \* SpecReport: what filterV4VPayments returned
  proxy             \* SpecReport: the last lnurl-callback request and its status

vars == <<snapshot, now, cmd, cmdpc, clientCreated, closeCalls, config, pc, cached,
          newTransactions, offset, batchCount, retries, result, err,
          preSnapshot, attempts, lastErr, gaveUp, writeOk, waited,
          issued, handled, received, lastBatch,
          wallet, runs, firstLeft, firstWriteOk, firstResult, initialFile,
          handlers, tick, lastWriterStart, overwrote,
          titlesFile, tnow, tpc, titlesResult, refreshFailed, loaded,
          disk, savePc, fileRead, observed, clearLog,
          envMaxBatches, configMaxBatches, requested,
          siteUrl, reportTxs, called, summary, byEssay, byPeriod, mode,
          tzOffset, outFormat, comparison, described, parsed, filtered, proxy>>

fetchVars == <<pc, cached, newTransactions, offset, batchCount, retries,
               result, err, preSnapshot, attempts, lastErr, gaveUp, writeOk,
               waited, issued, handled, received, lastBatch>>

idemVars == <<wallet, runs, firstLeft, firstWriteOk, firstResult, initialFile>>

cmdVars == <<cmd, cmdpc, clientCreated, closeCalls, config>>

dashVars == <<handlers, tick, lastWriterStart, overwrote>>

\* What the fetch pipeline and the commands leave alone.
titleVars == <<titlesFile, tnow, tpc, titlesResult, refreshFailed, loaded>>

fileVars == <<disk, savePc, fileRead, observed>>

reportVars == <<siteUrl, reportTxs, called, summary, byEssay, byPeriod, mode,
               tzOffset, outFormat, comparison, described, parsed, filtered, proxy>>

configVars == <<envMaxBatches, configMaxBatches, requested>>

extVars == <<dashVars, titleVars, fileVars, clearLog, configVars, reportVars>>

----------------------------------------------------------------------------
(* Bounds and configuration *)

batchSize == 2      \* CONFIG.batchSize as configured through V4V_BATCH_SIZE
maxBatches == 2     \* CONFIG.maxBatches as configured through V4V_MAX_BATCHES
maxRetries == 2     \* DEFAULT_MAX_RETRIES
RETRY_BASE_DELAY == 2000
MaxClock == 2       \* commands run
MaxWallet == 3      \* SpecIdem: length of the wallet listing
MaxRequests == 2    \* SpecDash: /api/data requests received
titlesCacheTtl == 2 \* CONFIG.titlesCacheTtl, in clock ticks
MaxTitlesClock == 4 \* SpecTitles: clock ticks
MaxFileLen == 2     \* SpecLoad, SpecSave: transactions in a snapshot file
MaxOps == 3         \* SpecClear: saves and clears in a row
MaxEnv == 3         \* SpecConfig: the largest number V4V_MAX_BATCHES is set to
DEFAULT_MAX_BATCHES == 100
MaxList == 3        \* SpecReport: transactions in a report
MaxPeriodList == 3  \* SpecReport: transactions in a time series
MaxStamp == 24      \* SpecReport: the latest timestamp of a time series
MILLISATS_PER_SAT == 1000
StampsPerDay == 3   \* timestamps count the 8-hour thirds of a day
EpochWeekday == 4   \* timestamp 0 opens a Thursday (1970-01-01)

----------------------------------------------------------------------------
(* Transactions *)

Tx(h, s, c) == [payment_hash |-> h, settled_at |-> s, created_at |-> c]

\* The payments the wallet can list.  "a" exists in two copies: as first
\* listed (created only) and as settled later.
TxUniverse ==
  { Tx("a", 3, 1), Tx("a", 0, 1), Tx("b", 0, 2), Tx("c", 2, 3), Tx("d", 0, 0) }

\* tx.settled_at || tx.created_at || 0
EffTime(tx) ==
  IF tx.settled_at # 0 THEN tx.settled_at
  ELSE IF tx.created_at # 0 THEN tx.created_at
  ELSE 0

SetMax(S) == CHOOSE x \in S : \A y \in S : y <= x
SetMin(S) == CHOOSE x \in S : \A y \in S : x <= y

Infinity == SetMax({EffTime(tx) : tx \in TxUniverse}) + 1

\* tx.settled_at || tx.created_at || Infinity
TimeOrInfinity(tx) ==
  IF tx.settled_at # 0 THEN tx.settled_at
  ELSE IF tx.created_at # 0 THEN tx.created_at
  ELSE Infinity

\* cached.length > 0 ? Math.max(...cached.map(EffTime)) : 0
LatestCached(c) ==
  IF Len(c) > 0 THEN SetMax({EffTime(c[i]) : i \in 1..Len(c)}) ELSE 0

\* Math.min(...response.transactions.map(TimeOrInfinity))
OldestInBatch(batch) == SetMin({TimeOrInfinity(batch[i]) : i \in 1..Len(batch)})

\* A plausible slip: the horizon is Infinity-based as in oldestInBatch.
NewInBatchOrUntimed(batch, latest) ==
  SelectSeq(batch, LAMBDA tx : TimeOrInfinity(tx) > latest)

\* A plausible slip: >= for >.
NewInBatchInclusive(batch, latest) ==
  SelectSeq(batch, LAMBDA tx : EffTime(tx) >= latest)

\* for (const tx of response.transactions) if (txTime > latestCached) push
NewInBatch(batch, latest) == SelectSeq(batch, LAMBDA tx : EffTime(tx) > latest)

RECURSIVE DedupeFrom(_, _, _)
DedupeFrom(s, seen, merged) ==
  IF s = <<>> THEN merged
  ELSE IF Head(s).payment_hash \in seen
       THEN DedupeFrom(Tail(s), seen, merged)
       ELSE DedupeFrom(Tail(s), seen \cup {Head(s).payment_hash},
                       Append(merged, Head(s)))

\* A plausible slip: the merge loop pushes every record.
DedupeNone(s) == s

\* The merge loop: first occurrence of each payment_hash wins.
DedupeByHash(s) == DedupeFrom(s, {}, <<>>)

\* A plausible slip: a sort that is not stable (equal keys change places).
RECURSIVE InsertDescBeforeTies(_, _)
InsertDescBeforeTies(tx, sorted) ==
  IF sorted = <<>> THEN <<tx>>
  ELSE IF EffTime(Head(sorted)) > EffTime(tx)
       THEN <<Head(sorted)>> \o InsertDescBeforeTies(tx, Tail(sorted))
       ELSE <<tx>> \o sorted

\* Place tx behind every record that does not sort after it (stable).
RECURSIVE InsertDesc(_, _)
InsertDesc(tx, sorted) ==
  IF sorted = <<>> THEN <<tx>>
  ELSE IF EffTime(Head(sorted)) >= EffTime(tx)
       THEN <<Head(sorted)>> \o InsertDesc(tx, Tail(sorted))
       ELSE <<tx>> \o sorted

RECURSIVE InsertAsc(_, _)
InsertAsc(tx, sorted) ==
  IF sorted = <<>> THEN <<tx>>
  ELSE IF EffTime(Head(sorted)) <= EffTime(tx)
       THEN <<Head(sorted)>> \o InsertAsc(tx, Tail(sorted))
       ELSE <<tx>> \o sorted

RECURSIVE SortFrom(_, _)
SortFrom(s, sorted) ==
  IF s = <<>> THEN sorted ELSE SortFrom(Tail(s), InsertDesc(Head(s), sorted))

RECURSIVE SortAscFrom(_, _)
SortAscFrom(s, sorted) ==
  IF s = <<>> THEN sorted ELSE SortAscFrom(Tail(s), InsertAsc(Head(s), sorted))

\* A plausible slip: the comparator is a - b.
SortAsc(s) == SortAscFrom(s, <<>>)

\* merged.sort((a, b) => EffTime(b) - EffTime(a)); Array.prototype.sort is stable.
SortDesc(s) == SortFrom(s, <<>>)

----------------------------------------------------------------------------
(* The snapshot file *)

NoFile == [exists |-> FALSE, updated |-> 0, transactions |-> <<>>]

\* existsSync ? JSON.parse(readFileSync).transactions || [] : []
LoadTransactionCache(file) ==
  IF file.exists THEN file.transactions ELSE <<>>

\* A plausible slip: the write is skipped when the list did not change.
SaveIfChanged(file, transactions, t, ok) ==
  IF ok /\ ~(file.exists /\ file.transactions = transactions)
  THEN [exists |-> TRUE, updated |-> t, transactions |-> transactions]
  ELSE file

\* writeFileSync({updated: now, transactions}); a failing write is logged
\* and leaves the file as it was.
SaveTransactionCache(file, transactions, t, ok) ==
  IF ok THEN [exists |-> TRUE, updated |-> t, transactions |-> transactions]
  ELSE file

\* existsSync ? (unlinkSync, true) : false; a failing unlinkSync is logged
\* and leaves the file as it was.
ClearCache(file, ok) == IF ok THEN NoFile ELSE file

----------------------------------------------------------------------------
(* Wallet errors *)

WalletError(n, c) == [name |-> n, code |-> c]

NoError == WalletError("none", "none")

\* What listTransactions can throw.
WalletErrors ==
  { WalletError("Nip47ReplyTimeoutError", "OTHER"),
    WalletError("Nip47WalletError", "INTERNAL"),
    WalletError("Nip47WalletError", "UNAUTHORIZED") }

\* new Error('Alby Hub timeout - is your Alby Hub running?')
AlbyHubTimeout == WalletError("Error", "Alby Hub timeout")

\* A plausible slip: every error is retried.
IsTransientAlways(e) == TRUE

\* error.name === 'Nip47ReplyTimeoutError' || error.code === 'INTERNAL'
IsTransient(e) == e.name = "Nip47ReplyTimeoutError" \/ e.code = "INTERNAL"

\* A plausible slip: && for ||.
HasDataBoth(new, c) == Len(new) > 0 /\ Len(c) > 0

\* A plausible slip: the degraded path is taken without looking.
HasDataAlways(new, c) == TRUE

\* newTransactions.length > 0 || cached.length > 0
HasData(new, c) == Len(new) > 0 \/ Len(c) > 0

\* The batches one listTransactions call can return.
Batches == UNION {[1..n -> TxUniverse] : n \in 0..batchSize}

----------------------------------------------------------------------------
(* fetchTransactions *)

\* What the pipeline looks at in response.transactions: its length
\* (lines 55, 76), its lowest timestamp with a record that has none counted
\* as Infinity (line 60), and its lowest txTime, where such a record counts
\* as 0 (line 63).
Measure(batch) ==
  [length |-> Len(batch),
   oldest |-> IF Len(batch) = 0 THEN Infinity ELSE OldestInBatch(batch),
   lowest |-> IF Len(batch) = 0 THEN Infinity
              ELSE SetMin({EffTime(batch[i]) : i \in 1..Len(batch)})]

\* No response yet.
NoBatch == Measure(<<>>)

\* A plausible slip: the pages are numbered, not the records.
RequestPage(off) ==
  [type |-> "incoming", limit |-> batchSize, offset |-> off \div batchSize]

\* The argument of client.listTransactions (lines 32-36).
Request(off) == [type |-> "incoming", limit |-> batchSize, offset |-> off]

\* Lines 15-24 and the first pass through both loop heads: the state in
\* which the first listTransactions call is awaited.
BeginFetch(file) ==
  /\ preSnapshot' = file
  /\ cached' = LoadTransactionCache(file)
  /\ newTransactions' = <<>>
  /\ offset' = 0
  /\ batchCount' = 0
  /\ retries' = 0
  /\ attempts' = 0
  /\ result' = <<>>
  /\ err' = NoError
  /\ lastErr' = NoError
  /\ gaveUp' = FALSE
  /\ writeOk' = FALSE
  /\ waited' = 0
  /\ issued' = <<Request(0)>>
  /\ handled' = 0
  /\ received' = 0
  /\ lastBatch' = NoBatch
  /\ pc' = "request"

\* A plausible slip: the merge leaves `...cached` out.
FinishNewOnly(new, ok) ==
  LET merged == SortDesc(DedupeByHash(new))
  IN /\ snapshot' = SaveTransactionCache(snapshot, merged, now, ok)
     /\ writeOk' = ok
     /\ result' = merged
     /\ pc' = "returned"

\* A plausible slip: saveTransactionCache lets the write error through.
FinishOrThrow(new, ok) ==
  LET merged == SortDesc(DedupeByHash(new \o cached))
  IN /\ snapshot' = SaveTransactionCache(snapshot, merged, now, ok)
     /\ writeOk' = ok
     /\ result' = IF ok THEN merged ELSE <<>>
     /\ pc' = IF ok THEN "returned" ELSE "threw"

\* A plausible slip: the merge spreads `cached` first.
FinishCachedFirst(new, ok) ==
  LET merged == SortDesc(DedupeByHash(cached \o new))
  IN /\ snapshot' = SaveTransactionCache(snapshot, merged, now, ok)
     /\ writeOk' = ok
     /\ result' = merged
     /\ pc' = "returned"

\* Lines 85-101: merge, dedupe, sort, save, return.
Finish(new, ok) ==
  LET merged == SortDesc(DedupeByHash(new \o cached))
  IN /\ snapshot' = SaveTransactionCache(snapshot, merged, now, ok)
     /\ writeOk' = ok
     /\ result' = merged
     /\ pc' = "returned"

\* A plausible slip: a short batch does not end the paging.
StopsAtHorizonOnly(batch, latest) == OldestInBatch(batch) <= latest

\* Lines 71-78: the two breaks behind the loop over a non-empty batch.
StopsPaging(batch, latest) ==
  \/ OldestInBatch(batch) <= latest
  \/ Len(batch) < batchSize

\* listTransactions resolved with `batch` (lines 55-83).
HandleBatch(batch, ok) ==
  LET latestCached == LatestCached(cached)
      new == newTransactions \o NewInBatch(batch, latestCached)
  IN /\ attempts' = attempts + 1
     /\ handled' = handled + 1
     /\ received' = received + Len(batch)
     /\ lastBatch' = Measure(batch)
     /\ UNCHANGED <<cached, preSnapshot, err, lastErr, gaveUp, retries, waited,
                    issued>>
     /\ IF Len(batch) = 0
        THEN /\ Finish(newTransactions, ok)
             /\ UNCHANGED <<newTransactions, offset, batchCount>>
        ELSE /\ newTransactions' = new
             /\ IF StopsPaging(batch, latestCached)
                THEN /\ Finish(new, ok)
                     /\ UNCHANGED <<offset, batchCount>>
                ELSE /\ offset' = offset + batchSize
                     /\ batchCount' = batchCount + 1
                     /\ pc' = "delay"
                     /\ UNCHANGED <<snapshot, result, writeOk>>

\* listTransactions rejected with `e` (lines 38-52).
HandleError(e, ok) ==
  /\ attempts' = attempts + 1
  /\ lastErr' = e
  /\ UNCHANGED <<cached, preSnapshot, newTransactions, offset, batchCount,
                 issued, handled, received, lastBatch>>
  /\ IF IsTransient(e)
     THEN /\ retries' = retries + 1
          /\ IF retries + 1 >= maxRetries
             THEN /\ gaveUp' = TRUE
                  /\ waited' = 0
                  /\ IF HasData(newTransactions, cached)
                     THEN /\ Finish(newTransactions, ok)
                          /\ UNCHANGED err
                     ELSE /\ err' = AlbyHubTimeout
                          /\ pc' = "threw"
                          /\ UNCHANGED <<snapshot, result, writeOk>>
             ELSE /\ waited' = RETRY_BASE_DELAY * (retries + 1)
                  /\ pc' = "backoff"
                  /\ UNCHANGED <<snapshot, result, writeOk, err, gaveUp>>
     ELSE /\ err' = e
          /\ pc' = "threw"
          /\ UNCHANGED <<snapshot, result, writeOk, retries, gaveUp, waited>>

\* client.listTransactions({type: 'incoming', limit, offset}) returns.
ListOk ==
  /\ pc = "request"
  /\ \E batch \in Batches, ok \in BOOLEAN : HandleBatch(batch, ok)
  /\ UNCHANGED <<now, cmdVars, idemVars, extVars>>

\* client.listTransactions throws.
ListError ==
  /\ pc = "request"
  /\ \E e \in WalletErrors, ok \in BOOLEAN : HandleError(e, ok)
  /\ UNCHANGED <<now, cmdVars, idemVars, extVars>>

\* The backoff timer of line 48 fires; `continue` re-enters the retry loop.
BackoffElapsed ==
  /\ pc = "backoff"
  /\ pc' = "request"
  /\ waited' = 0
  /\ issued' = Append(issued, Request(offset))
  /\ UNCHANGED <<snapshot, now, cmdVars, idemVars, extVars, cached, newTransactions,
                 offset, batchCount, retries, result, err, preSnapshot,
                 attempts, lastErr, gaveUp, writeOk, handled, received,
                 lastBatch>>

\* A plausible slip: <= for <.
MoreBatchesInclusive(count) == count <= maxBatches

\* The outer loop head, line 26.
MoreBatches(count) == count < maxBatches

\* The batch delay of line 82 fires; the outer loop head is evaluated.
DelayElapsed ==
  /\ pc = "delay"
  /\ UNCHANGED <<now, cmdVars, idemVars, extVars, cached, newTransactions, offset,
                 batchCount, err, preSnapshot, lastErr, gaveUp, waited,
                 handled, received, lastBatch>>
  /\ IF MoreBatches(batchCount)
     THEN /\ pc' = "request"
          /\ retries' = 0
          /\ attempts' = 0
          /\ issued' = Append(issued, Request(offset))
          /\ UNCHANGED <<snapshot, result, writeOk>>
     ELSE /\ \E ok \in BOOLEAN : Finish(newTransactions, ok)
          /\ UNCHANGED <<retries, attempts, issued>>

----------------------------------------------------------------------------
(* Commands that own a wallet client *)

\* CONFIG.siteUrl (V4V_SITE_URL) and CONFIG.nwcConnectionString
\* (NWC_CONNECTION_STRING): set or not.
Config(site, nwc) == [siteUrl |-> site, nwcConnectionString |-> nwc]

\* createClient: throws unless CONFIG.nwcConnectionString is set.
CreateClientOk(c) == c.nwcConnectionString

\* createClient() threw, or the command has not reached fetchTransactions.
NoFetch ==
  /\ pc' = "idle"
  /\ UNCHANGED <<cached, newTransactions, offset, batchCount, retries, result,
                 err, preSnapshot, attempts, lastErr, gaveUp, writeOk, waited,
                 issued, handled, received, lastBatch>>

\* createClient() returned and the command awaits fetchTransactions(client).
Acquire(c, file) ==
  /\ cmd' = c
  /\ cmdpc' = "running"
  /\ clientCreated' = TRUE
  /\ closeCalls' = 0
  /\ BeginFetch(file)

\* The command ended without ever holding a client.
NoClient(c, how) ==
  /\ cmd' = c
  /\ cmdpc' = how
  /\ clientCreated' = FALSE
  /\ closeCalls' = 0
  /\ NoFetch

\* The command ends as `how`; `closes` says whether its finally block ran.
EndCommand(how, closes) ==
  /\ cmdpc' = how
  /\ closeCalls' = IF closes THEN closeCalls + 1 ELSE closeCalls
  /\ pc' = "idle"
  /\ UNCHANGED <<snapshot, now, cmd, clientCreated, config, idemVars, extVars, cached,
                 newTransactions, offset, batchCount, retries, result, err,
                 preSnapshot, attempts, lastErr, gaveUp, writeOk, waited,
                 issued, handled, received, lastBatch>>

CanStart == cmdpc # "running" /\ now < MaxClock

\* reportCommand up to `await fetchTransactions(client, onProgress)`.
ReportStart ==
  /\ CanStart
  /\ now' = now + 1
  /\ UNCHANGED <<snapshot, idemVars, extVars>>
  /\ \E site, nwc \in BOOLEAN :
       /\ config' = Config(site, nwc)
       /\ IF CreateClientOk(Config(site, nwc))
          THEN Acquire("report", snapshot)
          ELSE NoClient("report", "exit")

\* reportCommand after fetchTransactions settled.  process.exit(1) ends the
\* process on the spot: the finally block does not run.
ReportFinish ==
  /\ cmd = "report" /\ cmdpc = "running"
  /\ \/ /\ pc = "threw"
        /\ EndCommand("exit", FALSE)
     \/ /\ pc = "returned"
        /\ \E rest \in {"ok", "sinceInvalid", "throws"} :
             CASE rest = "sinceInvalid" -> EndCommand("exit", FALSE)
               [] rest = "ok" -> EndCommand("returned", TRUE)
               [] rest = "throws" -> EndCommand("threw", TRUE)

\* The /api/data handler up to `await fetchTransactions(client)`.
DashboardStart ==
  /\ CanStart
  /\ now' = now + 1
  /\ UNCHANGED <<snapshot, idemVars, extVars>>
  /\ \E site, nwc \in BOOLEAN :
       /\ config' = Config(site, nwc)
       /\ IF CreateClientOk(Config(site, nwc))
          THEN Acquire("dashboard", snapshot)
          ELSE NoClient("dashboard", "returned")

\* The /api/data handler after fetchTransactions settled: try/finally, then
\* the outer catch answers 500.
DashboardFinish ==
  /\ cmd = "dashboard" /\ cmdpc = "running"
  /\ pc \in {"returned", "threw"}
  /\ EndCommand("returned", TRUE)

\* rebuildCache up to `await fetchTransactions(client, ...)`: the cache is
\* cleared before the client is created.
RebuildStart ==
  /\ CanStart
  /\ now' = now + 1
  /\ UNCHANGED <<idemVars, extVars>>
  /\ \E site, nwc, ok \in BOOLEAN :
       /\ snapshot' = ClearCache(snapshot, ok)
       /\ config' = Config(site, nwc)
       /\ IF CreateClientOk(Config(site, nwc))
          THEN Acquire("rebuild", ClearCache(snapshot, ok))
          ELSE NoClient("rebuild", "threw")

\* rebuildCache after fetchTransactions settled: try/finally.
RebuildFinish ==
  /\ cmd = "rebuild" /\ cmdpc = "running"
  /\ \/ /\ pc = "threw"
        /\ EndCommand("threw", TRUE)
     \/ /\ pc = "returned"
        /\ EndCommand("returned", TRUE)

\* fetchV4VData up to `await fetchTransactions(client)`.  Its SITE_URL falls
\* back to a built-in default and is never missing.
FetchV4VDataStart ==
  /\ CanStart
  /\ now' = now + 1
  /\ UNCHANGED <<snapshot, idemVars, extVars>>
  /\ \E nwc \in BOOLEAN :
       /\ config' = Config(TRUE, nwc)
       /\ IF CreateClientOk(Config(TRUE, nwc))
          THEN Acquire("fetchV4VData", snapshot)
          ELSE NoClient("fetchV4VData", "threw")

\* fetchV4VData after fetchTransactions settled: try/finally.
FetchV4VDataFinish ==
  /\ cmd = "fetchV4VData" /\ cmdpc = "running"
  /\ \/ /\ pc = "threw"
        /\ EndCommand("threw", TRUE)
     \/ /\ pc = "returned"
        /\ \E rest \in {"ok", "throws"} :
             IF rest = "ok" THEN EndCommand("returned", TRUE)
             ELSE EndCommand("threw", TRUE)

----------------------------------------------------------------------------
(* Specification Spec: fetchTransactions called again and again, against a *)
(* wallet that may answer each request with any batch or any error         *)

InitFetch ==
  /\ pc = "idle"
  /\ cached = <<>>
  /\ newTransactions = <<>>
  /\ offset = 0
  /\ batchCount = 0
  /\ retries = 0
  /\ result = <<>>
  /\ err = NoError
  /\ preSnapshot = NoFile
  /\ attempts = 0
  /\ lastErr = NoError
  /\ gaveUp = FALSE
  /\ writeOk = FALSE
  /\ waited = 0
  /\ issued = <<>>
  /\ handled = 0
  /\ received = 0
  /\ lastBatch = NoBatch

InitCmd ==
  /\ cmd = "none"
  /\ cmdpc = "none"
  /\ clientCreated = FALSE
  /\ closeCalls = 0
  /\ config = Config(TRUE, TRUE)

\* The dashboard server before its first request.
Requests == 1..MaxRequests

IdleHandler ==
  [pc |-> "idle", cached |-> <<>>, newTransactions |-> <<>>, offset |-> 0,
   batchCount |-> 0, retries |-> 0, started |-> 0, status |-> 0,
   body |-> <<>>]

InitDash ==
  /\ handlers = [r \in Requests |-> IdleHandler]
  /\ tick = 0
  /\ lastWriterStart = 0
  /\ overwrote = FALSE

\* A titles map, by the slugs it gives a title to; {} is the empty map.
TitleMaps == SUBSET {"essay-a", "essay-b"}

\* The titles file: `parses` is false for a text JSON.parse throws on.
NoTitlesFile == [exists |-> FALSE, parses |-> FALSE, fetched |-> 0, titles |-> {}]

InitTitles ==
  /\ titlesFile = NoTitlesFile
  /\ tnow = 0
  /\ tpc = "idle"
  /\ titlesResult = {}
  /\ refreshFailed = FALSE
  /\ loaded = [called |-> FALSE, file |-> NoTitlesFile, at |-> 0,
               result |-> [found |-> FALSE, titles |-> {}]]

\* A JavaScript value, as far as loadTransactionCache can tell values
\* apart.
Value(k, n, str, items) == [kind |-> k, num |-> n, str |-> str, items |-> items]

Undefined == Value("undefined", 0, "", <<>>)
JsNull == Value("null", 0, "", <<>>)
Num(n) == Value("number", n, "", <<>>)
Str(str) == Value("string", 0, str, <<>>)
EmptyObject == Value("object", 0, "", <<>>)
Arr(items) == Value("array", 0, "", items)

\* !!v
Truthy(v) ==
  CASE v.kind \in {"undefined", "null"} -> FALSE
    [] v.kind = "number" -> v.num # 0
    [] v.kind = "string" -> v.str # ""
    [] OTHER -> TRUE

FileTxs == { Tx("b", 0, 2), Tx("c", 2, 3) }

FileLists == UNION {[1..n -> FileTxs] : n \in 0..MaxFileLen}

\* What the `transactions` property of the parsed file can be.
TransactionsValues ==
  {Undefined, JsNull, Num(0), Num(5), Str(""), Str("x"), EmptyObject}
    \cup {Arr(l) : l \in FileLists}

\* The JSON documents a file can hold: a document that is no object, or an
\* object and its `transactions` property.
Data(k, t) == [kind |-> k, transactions |-> t]

Documents ==
  {Data(k, Undefined) : k \in {"null", "number", "string", "array"}}
    \cup {Data("object", t) : t \in TransactionsValues}

\* JSON.stringify writes a document as a head, its transactions one by one,
\* and a tail; a document that is no object is one chunk.
Size(data) ==
  IF data.kind = "object" THEN 2 + Len(data.transactions.items) ELSE 1

\* A file holds the first `written` chunks of the text of `data`.
File(e, r, data, n) == [exists |-> e, readable |-> r, data |-> data, written |-> n]

NoDisk == File(FALSE, FALSE, Data("null", Undefined), 0)

\* JSON.parse accepts a text that is whole and throws on every cut one.
Parses(file) == file.written = Size(file.data)

\* The files a program, an editor or a crash can leave at the snapshot path.
FileContents ==
  {NoDisk} \cup
  {File(TRUE, r, d, n) : r \in BOOLEAN, d \in Documents, n \in 0..(2 + MaxFileLen)}

InitFile ==
  /\ clearLog = <<>>
  /\ disk = NoDisk
  /\ savePc = "idle"
  /\ fileRead = NoDisk
  /\ observed = Undefined

\* A string is the tuple of its characters; <<>> is the empty string and
\* stands for an absent one as well (both are falsy).
SiteUrl == <<"s", ".", "o">>

\* buildSummary of no transactions, for a null price.
NoSummary ==
  [totalSats |-> 0, totalPayments |-> 0, avgSats |-> 0,
   essays |-> [sats |-> 0, payments |-> 0, usd |-> [null |-> TRUE, e8 |-> 0]],
   general |-> [sats |-> 0, payments |-> 0, usd |-> [null |-> TRUE, e8 |-> 0]],
   totalUsd |-> [null |-> TRUE, e8 |-> 0],
   avgUsd |-> [null |-> TRUE, e8 |-> 0],
   btcPrice |-> [null |-> TRUE, usd |-> 0]]

\* A percent change: null, or a fraction.
NoPercent == [null |-> TRUE, num |-> 0, den |-> 1]

\* No comparison was asked for.
NoComparison ==
  [kind |-> "none", sats |-> 0, satsPercent |-> NoPercent,
   payments |-> 0, paymentsPercent |-> NoPercent]

\* An lnurl-callback request: whether it carries `amount` and `nostr`, and
\* its `essay` parameter (<<>> when absent); status 0 before any request.
CallbackRequest(amount, nostr, essay, status) ==
  [amount |-> amount, nostr |-> nostr, essay |-> essay, status |-> status]

NoRequest == CallbackRequest(FALSE, FALSE, <<>>, 0)

InitReport ==
  /\ described = <<>>
  /\ proxy = NoRequest
  /\ parsed = <<>>
  /\ filtered = <<>>
  /\ outFormat = "none"
  /\ comparison = NoComparison
  /\ siteUrl = SiteUrl
  /\ reportTxs = <<>>
  /\ called = "none"
  /\ summary = NoSummary
  /\ byEssay = <<>>
  /\ byPeriod = <<>>
  /\ mode = "none"
  /\ tzOffset = 0

\* An environment variable: not set, or its text as parseInt reads it (a
\* text without leading digits gives NaN).
Unset == [set |-> FALSE, nan |-> TRUE, int |-> 0]
NotANumber == [set |-> TRUE, nan |-> TRUE, int |-> 0]
Digits(n) == [set |-> TRUE, nan |-> FALSE, int |-> n]

InitConfig ==
  /\ envMaxBatches = Unset
  /\ configMaxBatches = 0
  /\ requested = 0

InitExt ==
  /\ InitConfig
  /\ InitDash
  /\ InitTitles
  /\ InitFile
  /\ InitReport

InitIdem ==
  /\ wallet = <<>>
  /\ runs = 0
  /\ firstLeft = NoFile
  /\ firstWriteOk = FALSE
  /\ firstResult = <<>>
  /\ initialFile = NoFile

Init ==
  /\ snapshot = NoFile
  /\ now = 0
  /\ InitCmd
  /\ InitFetch
  /\ InitIdem
  /\ InitExt

\* No fetch is in flight and none has left a result behind.
ResetFetch ==
  /\ pc' = "idle"
  /\ cached' = <<>>
  /\ newTransactions' = <<>>
  /\ offset' = 0
  /\ batchCount' = 0
  /\ retries' = 0
  /\ result' = <<>>
  /\ err' = NoError
  /\ preSnapshot' = NoFile
  /\ attempts' = 0
  /\ lastErr' = NoError
  /\ gaveUp' = FALSE
  /\ writeOk' = FALSE
  /\ waited' = 0
  /\ issued' = <<>>
  /\ handled' = 0
  /\ received' = 0
  /\ lastBatch' = NoBatch

Settled == pc \in {"idle", "returned", "threw"}

\* A caller awaits fetchTransactions(client).
FetchCall ==
  /\ Settled
  /\ now < MaxClock
  /\ now' = now + 1
  /\ BeginFetch(snapshot)
  /\ UNCHANGED <<snapshot, cmdVars, idemVars, extVars>>

\* doClearCache: `v4v cache --clear`.
ClearCommand ==
  /\ Settled
  /\ \E ok \in BOOLEAN : snapshot' = ClearCache(snapshot, ok)
  /\ ResetFetch
  /\ UNCHANGED <<now, cmdVars, idemVars, extVars>>

Next ==
  \/ FetchCall
  \/ ClearCommand
  \/ ListOk
  \/ ListError
  \/ BackoffElapsed
  \/ DelayElapsed

Spec == Init /\ [][Next]_vars

----------------------------------------------------------------------------
(* Specification SpecWork: fetchTransactions against a wallet that may     *)
(* answer with more records than the limit asked for; every call returns   *)
(* or throws and every timer fires                                         *)

WorkUniverse == { Tx("b", 0, 2), Tx("c", 2, 3) }

WorkBatches == UNION {[1..n -> WorkUniverse] : n \in 0..(batchSize + 1)}

\* client.listTransactions returns, with any number of records.
WorkList ==
  /\ pc = "request"
  /\ \E batch \in WorkBatches, ok \in BOOLEAN : HandleBatch(batch, ok)
  /\ UNCHANGED <<now, cmdVars, idemVars, extVars>>

NextWork ==
  \/ FetchCall
  \/ WorkList
  \/ ListError
  \/ BackoffElapsed
  \/ DelayElapsed

SpecWork ==
  /\ Init
  /\ [][NextWork]_vars
  /\ WF_vars(WorkList \/ ListError)
  /\ WF_vars(BackoffElapsed)
  /\ WF_vars(DelayElapsed)

----------------------------------------------------------------------------
(* Specification SpecCmd: the commands, one after another *)

NextCmd ==
  \/ ReportStart
  \/ ReportFinish
  \/ DashboardStart
  \/ DashboardFinish
  \/ RebuildStart
  \/ RebuildFinish
  \/ FetchV4VDataStart
  \/ FetchV4VDataFinish
  \/ ListOk
  \/ ListError
  \/ BackoffElapsed
  \/ DelayElapsed

SpecCmd == Init /\ [][NextCmd]_vars

----------------------------------------------------------------------------
(* Specification SpecIdem: two fetches in a row against a wallet whose     *)
(* listing is fixed and whose requests never fail                          *)

SeqsUpTo(S, n) == UNION {[1..k -> S] : k \in 0..n}

\* One payment_hash, one record: the listing never shows two copies of a
\* payment that differ.
Consistent(s) ==
  \A i, j \in 1..Len(s) :
    s[i].payment_hash = s[j].payment_hash => s[i] = s[j]

Listings == {s \in SeqsUpTo(TxUniverse, MaxWallet) : Consistent(s)}

\* The snapshots fetchTransactions can have written: deduplicated, sorted,
\* and holding only records that were new once (a timestamp above 0).
WrittenCaches ==
  { SortDesc(DedupeByHash(s)) :
      s \in SeqsUpTo({tx \in TxUniverse : EffTime(tx) > 0}, MaxWallet) }

InitIdemSpec ==
  /\ wallet \in Listings
  /\ \/ snapshot = NoFile
     \/ \E c \in WrittenCaches :
          snapshot = [exists |-> TRUE, updated |-> 0, transactions |-> c]
  /\ initialFile = snapshot
  /\ now = 0
  /\ runs = 0
  /\ firstLeft = NoFile
  /\ firstWriteOk = FALSE
  /\ firstResult = <<>>
  /\ InitCmd
  /\ InitFetch
  /\ InitExt

\* listTransactions({limit, offset}) of a wallet that pages its listing.
Page(listing, off, limit) ==
  SubSeq(listing, off + 1,
         IF off + limit < Len(listing) THEN off + limit ELSE Len(listing))

\* fetchTransactions is called, for the first or the second time.
IdemCall ==
  /\ Settled
  /\ runs < 2
  /\ runs' = runs + 1
  /\ now' = now + 1
  /\ firstLeft' = IF runs = 1 THEN snapshot ELSE firstLeft
  /\ firstWriteOk' = IF runs = 1 THEN writeOk ELSE firstWriteOk
  /\ firstResult' = IF runs = 1 THEN result ELSE firstResult
  /\ BeginFetch(snapshot)
  /\ UNCHANGED <<snapshot, cmdVars, wallet, initialFile, extVars>>

\* The wallet answers the request with the page at `offset`.
IdemList ==
  /\ pc = "request"
  /\ \E ok \in BOOLEAN : HandleBatch(Page(wallet, offset, batchSize), ok)
  /\ UNCHANGED <<now, cmdVars, idemVars, extVars>>

NextIdem ==
  \/ IdemCall
  \/ IdemList
  \/ DelayElapsed

SpecIdem == InitIdemSpec /\ [][NextIdem]_vars

----------------------------------------------------------------------------
(* Specification SpecArrive: fetches that never fail, from an empty cache, *)
(* against a wallet that lists newest first and receives payments between  *)
(* the fetches                                                              *)

\* The payments that can come in: each has a timestamp, and none is older
\* than the newest one listed.
Arrivals(listing) ==
  {tx \in TxUniverse :
     /\ EffTime(tx) > 0
     /\ tx.payment_hash \notin {listing[i].payment_hash : i \in 1..Len(listing)}
     /\ listing # <<>> => EffTime(tx) >= EffTime(Head(listing))}

\* Between two commands a payment is settled; the wallet lists it first.
Arrive ==
  /\ Settled
  /\ Len(wallet) < MaxWallet
  /\ \E tx \in Arrivals(wallet) : wallet' = <<tx>> \o wallet
  /\ ResetFetch
  /\ UNCHANGED <<snapshot, now, cmdVars, runs, firstLeft, firstWriteOk,
                 firstResult, initialFile, extVars>>

NextArrive ==
  \/ FetchCall
  \/ Arrive
  \/ IdemList
  \/ DelayElapsed

SpecArrive == Init /\ [][NextArrive]_vars

----------------------------------------------------------------------------
(* Specification SpecRepair: a fetch whose requests may time out, then a   *)
(* fetch without errors, against one newest-first listing                  *)

NewestFirst(listing) ==
  \A i \in 1..Len(listing) - 1 : EffTime(listing[i]) >= EffTime(listing[i + 1])

InitRepair == InitIdemSpec /\ NewestFirst(wallet)

\* A request of the first fetch throws.
FirstListError == runs = 1 /\ ListError

NextRepair ==
  \/ IdemCall
  \/ IdemList
  \/ FirstListError
  \/ BackoffElapsed
  \/ DelayElapsed

SpecRepair == InitRepair /\ [][NextRepair]_vars

----------------------------------------------------------------------------
(* Specification SpecDash: the dashboard server.  Express calls the async  *)
(* /api/data handler for every request as it arrives; a handler that waits *)
(* at an `await` leaves the event loop to the other handlers.              *)
(* CONFIG.nwcConnectionString is set and options.mock is not.              *)

\* The fetches that have loaded the cache and not yet returned or thrown.
InFlight == {r \in Requests : handlers[r].pc \in {"request", "backoff", "delay"}}

\* A request arrives: the handler runs up to `await fetchEssayTitles()` and
\* `await fetchBtcPrice()`.
Receive(r) ==
  /\ handlers[r].pc = "idle"
  /\ handlers' = [handlers EXCEPT ![r].pc = "prelude"]
  /\ UNCHANGED <<snapshot, tick, lastWriterStart, overwrote>>

\* Titles and price have settled: createClient(), then fetchTransactions
\* loads the cache and awaits its first listTransactions call.
StartFetch(r) ==
  /\ handlers[r].pc = "prelude"
  /\ tick' = tick + 1
  /\ handlers' = [handlers EXCEPT ![r] =
       [IdleHandler EXCEPT !.pc = "request",
                           !.cached = LoadTransactionCache(snapshot),
                           !.started = tick + 1]]
  /\ UNCHANGED <<snapshot, lastWriterStart, overwrote>>

\* Lines 85-101 of fetchTransactions, then res.json(...) and client.close().
Answer(r, new, ok) ==
  LET h == handlers[r]
      merged == SortDesc(DedupeByHash(new \o h.cached))
  IN /\ snapshot' = SaveTransactionCache(snapshot, merged, now, ok)
     /\ lastWriterStart' = IF ok THEN h.started ELSE lastWriterStart
     /\ overwrote' = (overwrote \/ (ok /\ lastWriterStart > h.started))
     /\ handlers' = [handlers EXCEPT ![r] =
          [h EXCEPT !.pc = "answered", !.newTransactions = new,
                    !.status = 200, !.body = merged]]
     /\ UNCHANGED tick

\* fetchTransactions threw: finally closes the client, the outer catch
\* answers 500.
AnswerError(r) ==
  /\ handlers' = [handlers EXCEPT ![r].pc = "answered", ![r].status = 500]
  /\ UNCHANGED <<snapshot, tick, lastWriterStart, overwrote>>

\* listTransactions resolved with `batch` (lines 55-83).
BatchArrives(r, batch, ok) ==
  LET h == handlers[r]
      latestCached == LatestCached(h.cached)
      new == h.newTransactions \o NewInBatch(batch, latestCached)
  IN /\ h.pc = "request"
     /\ IF Len(batch) = 0
        THEN Answer(r, h.newTransactions, ok)
        ELSE IF \/ OldestInBatch(batch) <= latestCached
                \/ Len(batch) < batchSize
             THEN Answer(r, new, ok)
             ELSE /\ handlers' = [handlers EXCEPT ![r] =
                       [h EXCEPT !.pc = "delay", !.newTransactions = new,
                                 !.offset = h.offset + batchSize,
                                 !.batchCount = h.batchCount + 1]]
                  /\ UNCHANGED <<snapshot, tick, lastWriterStart, overwrote>>

\* listTransactions rejected with `e` (lines 38-52).
ErrorArrives(r, e, ok) ==
  LET h == handlers[r]
  IN /\ h.pc = "request"
     /\ IF IsTransient(e)
        THEN IF h.retries + 1 >= maxRetries
             THEN IF HasData(h.newTransactions, h.cached)
                  THEN Answer(r, h.newTransactions, ok)
                  ELSE AnswerError(r)
             ELSE /\ handlers' = [handlers EXCEPT ![r].pc = "backoff",
                                                  ![r].retries = h.retries + 1]
                  /\ UNCHANGED <<snapshot, tick, lastWriterStart, overwrote>>
        ELSE AnswerError(r)

\* The backoff timer of line 48 fires.
BackoffEnds(r) ==
  /\ handlers[r].pc = "backoff"
  /\ handlers' = [handlers EXCEPT ![r].pc = "request"]
  /\ UNCHANGED <<snapshot, tick, lastWriterStart, overwrote>>

\* The batch delay of line 82 fires; the outer loop head is evaluated.
DelayEnds(r, ok) ==
  /\ handlers[r].pc = "delay"
  /\ IF handlers[r].batchCount < maxBatches
     THEN /\ handlers' = [handlers EXCEPT ![r].pc = "request",
                                          ![r].retries = 0]
          /\ UNCHANGED <<snapshot, tick, lastWriterStart, overwrote>>
     ELSE Answer(r, handlers[r].newTransactions, ok)

coreVars == <<now, cmdVars, fetchVars, idemVars>>

\* What the dashboard server leaves alone.
dashRest == <<coreVars, titleVars, fileVars, clearLog, configVars, reportVars>>

DashReceive ==
  /\ \E r \in Requests : Receive(r)
  /\ UNCHANGED dashRest

DashStartFetch ==
  /\ \E r \in Requests : StartFetch(r)
  /\ UNCHANGED dashRest

\* The payments the wallet lists while the dashboard is up.
DashUniverse == { Tx("a", 3, 1), Tx("c", 2, 3) }

DashBatches == UNION {[1..n -> DashUniverse] : n \in 0..batchSize}

DashListOk ==
  /\ \E r \in Requests, batch \in DashBatches, ok \in BOOLEAN :
       BatchArrives(r, batch, ok)
  /\ UNCHANGED dashRest

DashListError ==
  /\ \E r \in Requests, e \in WalletErrors, ok \in BOOLEAN :
       ErrorArrives(r, e, ok)
  /\ UNCHANGED dashRest

DashBackoffElapsed ==
  /\ \E r \in Requests : BackoffEnds(r)
  /\ UNCHANGED dashRest

DashDelayElapsed ==
  /\ \E r \in Requests, ok \in BOOLEAN : DelayEnds(r, ok)
  /\ UNCHANGED dashRest

NextDash ==
  \/ DashReceive
  \/ DashStartFetch
  \/ DashListOk
  \/ DashListError
  \/ DashBackoffElapsed
  \/ DashDelayElapsed

SpecDash == Init /\ [][NextDash]_vars

----------------------------------------------------------------------------
(* Specification SpecTitles: fetchEssayTitles called again and again while *)
(* the clock runs and the feed answers or fails                            *)

\* What loadTitlesCache returns: a titles object, or null.
Null == [found |-> FALSE, titles |-> {}]

Titles(t) == [found |-> TRUE, titles |-> t]

\* A plausible slip: age <= CONFIG.titlesCacheTtl.
LoadTitlesCacheInclusive(file, t) ==
  IF file.exists /\ file.parses /\ t - file.fetched <= titlesCacheTtl
  THEN Titles(file.titles)
  ELSE Null

\* loadTitlesCache: the titles of a file younger than the TTL, else null;
\* JSON.parse throws on a cut text and the catch block returns null.
LoadTitlesCache(file, t) ==
  IF file.exists /\ file.parses /\ t - file.fetched < titlesCacheTtl
  THEN Titles(file.titles)
  ELSE Null

\* saveTitlesCache: writeFileSync({fetched: now, titles}); a failing write
\* is logged and leaves the file as it was.
SaveTitlesCache(file, titles, t, ok) ==
  IF ok THEN [exists |-> TRUE, parses |-> TRUE, fetched |-> t, titles |-> titles]
  ELSE file

\* cached || {}
OrEmpty(v) == IF v.found THEN v.titles ELSE {}

dashCoreVars == <<snapshot, coreVars, dashVars, fileVars, clearLog, configVars, reportVars>>

\* fetchEssayTitles(siteUrl, forceRefresh) up to `await fetchRss(feedUrl)`.
TitlesCall ==
  /\ tpc \in {"idle", "returned"}
  /\ refreshFailed' = FALSE
  /\ \E site, forceRefresh \in BOOLEAN :
       IF ~site
       THEN /\ titlesResult' = {}
            /\ tpc' = "returned"
       ELSE IF ~forceRefresh /\ LoadTitlesCache(titlesFile, tnow).found
            THEN /\ titlesResult' = LoadTitlesCache(titlesFile, tnow).titles
                 /\ tpc' = "returned"
            ELSE /\ tpc' = "fetching"
                 /\ UNCHANGED titlesResult
  /\ UNCHANGED <<titlesFile, tnow, loaded, dashCoreVars>>

\* fetchRss resolved and parseRss returned `titles` (lines 121-124).
RssOk ==
  /\ tpc = "fetching"
  /\ \E titles \in TitleMaps, ok \in BOOLEAN :
       /\ titlesFile' = SaveTitlesCache(titlesFile, titles, tnow, ok)
       /\ titlesResult' = titles
  /\ tpc' = "returned"
  /\ UNCHANGED <<tnow, refreshFailed, loaded, dashCoreVars>>

\* fetchRss rejected or parseRss threw (lines 125-130).
RssFail ==
  /\ tpc = "fetching"
  /\ refreshFailed' = TRUE
  /\ titlesResult' = OrEmpty(LoadTitlesCache(titlesFile, tnow))
  /\ tpc' = "returned"
  /\ UNCHANGED <<titlesFile, tnow, loaded, dashCoreVars>>

\* Time passes.
TitlesTick ==
  /\ tnow < MaxTitlesClock
  /\ tnow' = tnow + 1
  /\ UNCHANGED <<titlesFile, tpc, titlesResult, refreshFailed, loaded,
                 dashCoreVars>>

\* loadTitlesCache() is called.
TitlesLoad ==
  /\ loaded' = [called |-> TRUE, file |-> titlesFile, at |-> tnow,
                result |-> LoadTitlesCache(titlesFile, tnow)]
  /\ UNCHANGED <<titlesFile, tnow, tpc, titlesResult, refreshFailed,
                 dashCoreVars>>

\* The text of the titles file is left cut: writeFileSync truncates the
\* file before it writes, and the process can die in between.  What an
\* earlier call returned is no longer compared with the file.
TitlesCut ==
  /\ titlesFile.exists /\ titlesFile.parses
  /\ titlesFile' = [titlesFile EXCEPT !.parses = FALSE]
  /\ tpc' = IF tpc = "returned" THEN "idle" ELSE tpc
  /\ UNCHANGED <<tnow, titlesResult, refreshFailed, loaded, dashCoreVars>>

NextTitles ==
  \/ TitlesCall
  \/ RssOk
  \/ RssFail
  \/ TitlesTick
  \/ TitlesLoad
  \/ TitlesCut

SpecTitles == Init /\ [][NextTitles]_vars

----------------------------------------------------------------------------
(* Specification SpecLoad: loadTransactionCache applied to whatever is at  *)
(* the snapshot path                                                       *)

\* loadTransactionCache: `data.transactions || []` inside try/catch.
\* readFileSync throws on an unreadable file, JSON.parse on a cut text, and
\* the property read on null; the catch block turns each into [].
LoadRaw(file) ==
  IF ~file.exists THEN Arr(<<>>)
  ELSE IF ~file.readable THEN Arr(<<>>)
  ELSE IF ~Parses(file) THEN Arr(<<>>)
  ELSE IF file.data.kind = "null" THEN Arr(<<>>)
  ELSE IF Truthy(file.data.transactions) THEN file.data.transactions
  ELSE Arr(<<>>)

midVars == <<snapshot, coreVars, dashVars, titleVars, clearLog, configVars, reportVars>>

InitLoad ==
  /\ snapshot = NoFile
  /\ now = 0
  /\ InitCmd
  /\ InitFetch
  /\ InitIdem
  /\ InitDash
  /\ InitTitles
  /\ InitReport
  /\ disk \in {f \in FileContents : f.written <= Size(f.data)}
  /\ clearLog = <<>>
  /\ InitConfig
  /\ savePc = "idle"
  /\ fileRead = NoDisk
  /\ observed = Undefined

\* loadTransactionCache() is called.
Load ==
  /\ savePc = "idle"
  /\ fileRead' = disk
  /\ observed' = LoadRaw(disk)
  /\ UNCHANGED <<disk, savePc, midVars>>

NextLoad == Load

SpecLoad == InitLoad /\ [][NextLoad]_vars

----------------------------------------------------------------------------
(* Specification SpecClear: clearCache, and saveTransactionCache, applied *)
(* one after another to whatever is at the snapshot path                  *)

\* What getCacheStats returns: null, or the statistics.
NoStats == [null |-> TRUE, totalTransactions |-> 0]

\* getCacheStats: null without a file; statSync, readFileSync, JSON.parse,
\* the property read on null and `.map` on what is no list throw, and the
\* catch block turns each into null.
GetCacheStats(file) ==
  IF ~file.exists THEN NoStats
  ELSE IF ~file.readable \/ ~Parses(file) \/ file.data.kind = "null" THEN NoStats
  ELSE LET transactions == IF Truthy(file.data.transactions)
                           THEN file.data.transactions ELSE Arr(<<>>)
       IN IF transactions.kind # "array" THEN NoStats
          ELSE [null |-> FALSE, totalTransactions |-> Len(transactions.items)]

\* A plausible slip: the result says whether a file existed, removed or
\* not.
ClearCacheFileExisted(file, ok) ==
  [file |-> IF file.exists /\ ok THEN NoDisk ELSE file,
   returned |-> file.exists]

\* clearCache: existsSync ? (unlinkSync, true) : false, inside try/catch: a
\* failing unlinkSync is logged and false is returned.
ClearCacheFile(file, ok) ==
  [file |-> IF file.exists /\ ok THEN NoDisk ELSE file,
   returned |-> file.exists /\ ok]

\* One entry of the log: the operation, whether a file existed before it,
\* whether the file system carried it out, what it returned, and what
\* loadTransactionCache and getCacheStats return right after it.
Entry(op, file, ok, returned, after) ==
  [op |-> op, existed |-> file.exists, ok |-> ok, returned |-> returned,
   gone |-> ~after.exists, load |-> LoadRaw(after),
   stats |-> GetCacheStats(after)]

clearRest == <<snapshot, coreVars, dashVars, titleVars, reportVars, savePc,
               fileRead, observed, configVars>>

\* clearCache() is called.
ClearCall ==
  /\ Len(clearLog) < MaxOps
  /\ \E ok \in BOOLEAN :
       LET r == ClearCacheFile(disk, ok)
       IN /\ disk' = r.file
          /\ clearLog' = Append(clearLog, Entry("clear", disk, ok, r.returned, r.file))
  /\ UNCHANGED clearRest

\* saveTransactionCache(transactions) is called and is not interrupted.
SaveCall ==
  /\ Len(clearLog) < MaxOps
  /\ \E list \in FileLists, ok \in BOOLEAN :
       LET after == IF ok
                    THEN File(TRUE, TRUE, Data("object", Arr(list)), 2 + Len(list))
                    ELSE disk
       IN /\ disk' = after
          /\ clearLog' = Append(clearLog, Entry("save", disk, ok, FALSE, after))
  /\ UNCHANGED clearRest

NextClear ==
  \/ ClearCall
  \/ SaveCall

SpecClear == InitLoad /\ [][NextClear]_vars

----------------------------------------------------------------------------
(* Specification SpecConfig: config.js reads V4V_MAX_BATCHES when it is   *)
(* loaded, and a fetch pages through a wallet that always has one more    *)
(* full batch of new transactions                                         *)

EnvValues == {Unset, NotANumber} \cup {Digits(n) : n \in 0..MaxEnv}

\* parseInt(process.env.V4V_MAX_BATCHES, 10) || DEFAULT_MAX_BATCHES: NaN and
\* 0 are falsy.
MaxBatchesOf(env) ==
  IF env.nan \/ env.int = 0 THEN DEFAULT_MAX_BATCHES ELSE env.int

configRest == <<snapshot, coreVars, dashVars, titleVars, fileVars, clearLog,
                reportVars>>

\* The process starts: config.js is loaded.
ConfigLoad ==
  /\ configMaxBatches = 0
  /\ \E env \in EnvValues :
       /\ envMaxBatches' = env
       /\ configMaxBatches' = MaxBatchesOf(env)
  /\ UNCHANGED <<requested, configRest>>

\* fetchTransactions: `while (batchCount < maxBatches)` lets one more batch
\* be requested; the batch is full and new, so batchCount++ and the loop
\* goes on.
BatchRequested ==
  /\ configMaxBatches # 0
  /\ requested < configMaxBatches
  /\ requested' = requested + 1
  /\ UNCHANGED <<envMaxBatches, configMaxBatches, configRest>>

NextConfig ==
  \/ ConfigLoad
  \/ BatchRequested

SpecConfig == Init /\ [][NextConfig]_vars

----------------------------------------------------------------------------
(* Specification SpecSave: saveTransactionCache writes the snapshot with   *)
(* fs.writeFileSync, which opens the file with flag 'w' (create or         *)
(* truncate) and then writes the text, in as many write calls as it takes; *)
(* another process (a `v4v` command beside the dashboard server, or the    *)
(* next run after a crash) loads the snapshot at any moment                *)

\* saveTransactionCache(transactions): the file is opened and truncated.
\* A failing open throws, the catch block logs.
SaveOpen ==
  /\ savePc = "idle"
  /\ \E list \in FileLists, ok \in BOOLEAN :
       IF ok
       THEN /\ disk' = File(TRUE, TRUE, Data("object", Arr(list)), 0)
            /\ savePc' = "writing"
       ELSE UNCHANGED <<disk, savePc>>
  /\ UNCHANGED <<fileRead, observed, midVars>>

\* One more chunk of the text reaches the file; after the last one the file
\* is closed.  A failing write (disk full) throws, the catch block logs.
SaveWrite ==
  /\ savePc = "writing"
  /\ \E ok \in BOOLEAN :
       IF ok
       THEN /\ disk' = [disk EXCEPT !.written = disk.written + 1]
            /\ savePc' = IF disk.written + 1 = Size(disk.data)
                         THEN "idle" ELSE "writing"
       ELSE /\ savePc' = "idle"
            /\ UNCHANGED disk
  /\ UNCHANGED <<fileRead, observed, midVars>>

\* The process dies in the middle of the save (kill, power loss).
Crash ==
  /\ savePc = "writing"
  /\ savePc' = "idle"
  /\ UNCHANGED <<disk, fileRead, observed, midVars>>

\* A reader loads the snapshot.
Observe ==
  /\ fileRead' = disk
  /\ observed' = LoadRaw(disk)
  /\ UNCHANGED <<disk, savePc, midVars>>

NextSave ==
  \/ SaveOpen
  \/ SaveWrite
  \/ Crash
  \/ Observe

SpecSave == Init /\ [][NextSave]_vars

----------------------------------------------------------------------------
(* The transformers (lib/transformers.js) *)

Payment(a, d, st, ct) ==
  [amount |-> a, description |-> d, settled_at |-> st, created_at |-> ct]

\* [a-z0-9-]
SlugChars ==
  {"a", "b", "c", "d", "e", "f", "g", "h", "i", "j", "k", "l", "m", "n", "o",
   "p", "q", "r", "s", "t", "u", "v", "w", "x", "y", "z",
   "0", "1", "2", "3", "4", "5", "6", "7", "8", "9", "-"}

\* '(footer/general)'
FOOTER_SLUG ==
  <<"(", "f", "o", "o", "t", "e", "r", "/", "g", "e", "n", "e", "r", "a",
    "l", ")">>

\* The greedy group ([a-z0-9-]+) from position j on.
RECURSIVE SlugRun(_, _)
SlugRun(d, j) ==
  IF j > Len(d) \/ d[j] \notin SlugChars THEN <<>>
  ELSE <<d[j]>> \o SlugRun(d, j + 1)

\* A plausible slip: the pattern anchored at the start of the description.
ParseEssaySlugAnchored(description, site) ==
  IF description = <<>> \/ site = <<>> THEN <<>>
  ELSE LET pat == site \o <<"/">>
       IN IF /\ Len(pat) + 1 <= Len(description)
             /\ SubSeq(description, 1, Len(pat)) = pat
             /\ description[Len(pat) + 1] \in SlugChars
          THEN SlugRun(description, Len(pat) + 1)
          ELSE <<>>

\* parseEssaySlug: the first place where the site, '/' and a slug
\* character follow one another; <<>> stands for null (a slug is never
\* empty).  Every character of the site is matched literally, the dots
\* being escaped.
ParseEssaySlug(description, site) ==
  IF description = <<>> \/ site = <<>> THEN <<>>
  ELSE LET pat == site \o <<"/">>
           starts == {i \in 1..Len(description) :
                        /\ i + Len(pat) <= Len(description)
                        /\ SubSeq(description, i, i + Len(pat) - 1) = pat
                        /\ description[i + Len(pat)] \in SlugChars}
       IN IF starts = {} THEN <<>>
          ELSE SlugRun(description, SetMin(starts) + Len(pat))

\* isFooterPayment: the description is the site, or https:// and the site
\* (descriptions here carry no blanks at their ends).
IsFooterPayment(description, site) ==
  /\ description # <<>> /\ site # <<>>
  /\ \/ description = site
     \/ description = <<"h", "t", "t", "p", "s", ":", "/", "/">> \o site

\* description.includes(siteUrl)
Includes(description, site) ==
  \E i \in 1..(Len(description) - Len(site) + 1) :
    SubSeq(description, i, i + Len(site) - 1) = site

\* A plausible slip: the filter keeps what isFooterPayment or parseEssaySlug
\* recognise.
FilterRecognised(txs, site) ==
  IF site = <<>> THEN <<>>
  ELSE SelectSeq(txs, LAMBDA tx :
         \/ IsFooterPayment(tx.description, site)
         \/ ParseEssaySlug(tx.description, site) # <<>>)

\* filterV4VPayments(transactions, siteUrl)
FilterV4VPayments(txs, site) ==
  IF site = <<>> THEN <<>>
  ELSE SelectSeq(txs, LAMBDA tx :
         tx.description # <<>> /\ Includes(tx.description, site))

\* A plausible slip: Math.round for Math.floor.
SatsRounded(tx) == (2 * tx.amount + MILLISATS_PER_SAT) \div (2 * MILLISATS_PER_SAT)

\* Math.floor(tx.amount / MILLISATS_PER_SAT)
Sats(tx) == tx.amount \div MILLISATS_PER_SAT

\* transactions.reduce((sum, tx) => sum + Sats(tx), 0)
RECURSIVE SumSats(_, _)
SumSats(txs, sum) ==
  IF txs = <<>> THEN sum ELSE SumSats(Tail(txs), sum + Sats(Head(txs)))

\* Math.round(n / d) for n >= 0, d > 0: the nearest integer, halves up.
MathRound(n, d) == (2 * n + d) \div (2 * d)

\* The filter of line 184: parseEssaySlug(tx.description) is truthy.
IsEssay(tx, site) == ParseEssaySlug(tx.description, site) # <<>>

\* A plausible slip: the general payments picked by isFooterPayment.
IsGeneralFooter(tx, site) == IsFooterPayment(tx.description, site)

\* The filter of line 185: !parseEssaySlug(tx.description).
IsGeneral(tx, site) == ~(ParseEssaySlug(tx.description, site) # <<>>)

\* A BTC price: null, or a number of dollars.
NullPrice == [null |-> TRUE, usd |-> 0]
Price(n) == [null |-> FALSE, usd |-> n]

\* A plausible slip: btcPrice !== null for the truthiness of btcPrice.
SatsToUsdUnlessNull(sats, btcPrice) ==
  IF ~btcPrice.null
  THEN [null |-> FALSE, e8 |-> sats * btcPrice.usd]
  ELSE [null |-> TRUE, e8 |-> 0]

\* satsToUsd = sats => btcPrice ? (sats / 100000000) * btcPrice : null, the
\* amount held in units of 1e-8 dollar.
SatsToUsd(sats, btcPrice) ==
  IF ~btcPrice.null /\ btcPrice.usd # 0
  THEN [null |-> FALSE, e8 |-> sats * btcPrice.usd]
  ELSE [null |-> TRUE, e8 |-> 0]

\* buildSummary(transactions, btcPrice)
BuildSummary(txs, btcPrice, site) ==
  LET totalSats == SumSats(txs, 0)
      avgSats == IF Len(txs) > 0 THEN MathRound(totalSats, Len(txs)) ELSE 0
      essayTxs == SelectSeq(txs, LAMBDA tx : IsEssay(tx, site))
      generalTxs == SelectSeq(txs, LAMBDA tx : IsGeneral(tx, site))
      essaySats == SumSats(essayTxs, 0)
      generalSats == SumSats(generalTxs, 0)
  IN [totalSats |-> totalSats,
      totalPayments |-> Len(txs),
      avgSats |-> avgSats,
      essays |-> [sats |-> essaySats, payments |-> Len(essayTxs),
                  usd |-> SatsToUsd(essaySats, btcPrice)],
      general |-> [sats |-> generalSats, payments |-> Len(generalTxs),
                   usd |-> SatsToUsd(generalSats, btcPrice)],
      totalUsd |-> SatsToUsd(totalSats, btcPrice),
      avgUsd |-> SatsToUsd(avgSats, btcPrice),
      btcPrice |-> btcPrice]

\* parseEssaySlug(tx.description) || FOOTER_SLUG
BucketOf(tx, site) ==
  IF ParseEssaySlug(tx.description, site) # <<>>
  THEN ParseEssaySlug(tx.description, site)
  ELSE FOOTER_SLUG

\* byEssay.get(slug) || { sats: 0, count: 0, lastPayment: 0 }
NewBucket(slug) == [slug |-> slug, sats |-> 0, count |-> 0, lastPayment |-> 0]

\* A plausible slip: the bucket is set, not added to.
SetBucket(e, tx) ==
  [e EXCEPT !.sats = Sats(tx), !.count = 1,
            !.lastPayment = IF EffTime(tx) > e.lastPayment
                            THEN EffTime(tx) ELSE e.lastPayment]

\* Lines 115-119; an absent timestamp is greater than nothing.
AddToBucket(e, tx) ==
  [e EXCEPT !.sats = e.sats + Sats(tx), !.count = e.count + 1,
            !.lastPayment = IF EffTime(tx) > e.lastPayment
                            THEN EffTime(tx) ELSE e.lastPayment]

\* The for loop of lines 111-121 over a Map, which keeps its keys in the
\* order of their first insertion.
RECURSIVE CollectByEssay(_, _, _)
CollectByEssay(txs, site, map) ==
  IF txs = <<>> THEN map
  ELSE LET tx == Head(txs)
           slug == BucketOf(tx, site)
           at == {i \in 1..Len(map) : map[i].slug = slug}
       IN CollectByEssay(Tail(txs), site,
            IF at = {}
            THEN Append(map, AddToBucket(NewBucket(slug), tx))
            ELSE [map EXCEPT ![SetMin(at)] = AddToBucket(map[SetMin(at)], tx)])

\* The names an object literal inherits whose value, called as a compare
\* function, returns what no number can be read from (NaN, taken as 0):
\* Object(a, b) is the entry a, toString gives '[object Undefined]'.
InheritedNames == {"constructor", "toString"}

\* What the sort function of lines 124-128 compares.  The function is looked
\* up by name in an object literal: an inherited name finds a function of
\* Object.prototype, under which all entries tie; any other unknown name
\* finds nothing and falls back to sats.
SortKey(e, sortBy) ==
  CASE sortBy = "count" -> e.count
    [] sortBy = "recent" -> e.lastPayment
    [] sortBy \in InheritedNames -> 0
    [] OTHER -> e.sats

\* Place e behind every entry that does not sort after it (stable).
RECURSIVE InsertEntry(_, _, _)
InsertEntry(e, sorted, sortBy) ==
  IF sorted = <<>> THEN <<e>>
  ELSE IF SortKey(Head(sorted), sortBy) >= SortKey(e, sortBy)
       THEN <<Head(sorted)>> \o InsertEntry(e, Tail(sorted), sortBy)
       ELSE <<e>> \o sorted

RECURSIVE SortEntries(_, _, _)
SortEntries(entries, sortBy, sorted) ==
  IF entries = <<>> THEN sorted
  ELSE SortEntries(Tail(entries), sortBy, InsertEntry(Head(entries), sorted, sortBy))

\* aggregateByEssay(transactions, sortBy)
AggregateByEssay(txs, sortBy, site) ==
  SortEntries(CollectByEssay(txs, site, <<>>), sortBy, <<>>)

\* The date of an instant, in days since 1970-01-01.
DayOf(instant) == instant \div StampsPerDay

\* Date.prototype.getDay: 0 is Sunday.
Weekday(day) == (day + EpochWeekday) % 7

\* The first day of each month of 1970.
MonthStarts == <<0, 31, 59, 90, 120, 151, 181, 212, 243, 273, 304, 334>>

\* The calendar date of a day from December 1969 to December 1970.
CalendarDate(day) ==
  IF day < 0 THEN [year |-> 1969, month |-> 12, date |-> 32 + day]
  ELSE LET m == Cardinality({k \in 1..12 : MonthStarts[k] <= day})
       IN [year |-> 1970, month |-> m, date |-> day - MonthStarts[m] + 1]

\* getFullYear and getMonth of a day, as year * 12 + month.
MonthOf(day) == CalendarDate(day).year * 12 + CalendarDate(day).month - 1

Digit(n) == <<"0", "1", "2", "3", "4", "5", "6", "7", "8", "9">>[n + 1]

\* String(n) for n >= 0.
RECURSIVE Decimal(_)
Decimal(n) == IF n < 10 THEN <<Digit(n)>> ELSE Decimal(n \div 10) \o <<Digit(n % 10)>>

\* String(n).padStart(width, '0')
RECURSIVE PadStart(_, _)
PadStart(str, width) ==
  IF Len(str) >= width THEN str ELSE PadStart(<<"0">> \o str, width)

\* toISOString().split('T')[0] of a day: YYYY-MM-DD.
IsoDate(day) ==
  LET d == CalendarDate(day)
  IN PadStart(Decimal(d.year), 4) \o <<"-">> \o PadStart(Decimal(d.month), 2)
       \o <<"-">> \o PadStart(Decimal(d.date), 2)

\* Line 158: the year as it is, '-', the month on two digits.
YearMonth(month) ==
  Decimal(month \div 12) \o <<"-">> \o PadStart(Decimal((month % 12) + 1), 2)

\* Lines 153-155: d.setDate(d.getDate() - d.getDay() + 1) moves the local
\* date and keeps the time of day; toISOString gives the UTC date of the
\* moved instant.
WeekKey(timestamp, tz) ==
  LET day == Weekday(DayOf(timestamp + tz))
  IN DayOf(timestamp + (1 - day) * StampsPerDay)

\* Lines 149-159: the day (daily, weekly) or the month (monthly, and any
\* other period) that the key of a timestamp names.
PeriodKey(timestamp, period, tz) ==
  CASE period = "daily" -> DayOf(timestamp)
    [] period = "weekly" -> WeekKey(timestamp, tz)
    [] OTHER -> MonthOf(DayOf(timestamp + tz))

\* Lines 149-159: the key itself, a string.
PeriodLabel(timestamp, period, tz) ==
  IF period \in {"daily", "weekly"}
  THEN IsoDate(PeriodKey(timestamp, period, tz))
  ELSE YearMonth(PeriodKey(timestamp, period, tz))

\* tx.settled_at || tx.created_at: 0 stands for undefined.
Timestamp(tx) == IF tx.settled_at # 0 THEN tx.settled_at ELSE tx.created_at

\* The for loop of lines 142-165: the Map is keyed by the string.
RECURSIVE CollectByPeriod(_, _, _, _)
CollectByPeriod(txs, period, tz, map) ==
  IF txs = <<>> THEN map
  ELSE LET tx == Head(txs)
           key == PeriodKey(Timestamp(tx), period, tz)
           label == PeriodLabel(Timestamp(tx), period, tz)
           at == {i \in 1..Len(map) : map[i].label = label}
       IN CollectByPeriod(Tail(txs), period, tz,
            IF Timestamp(tx) = 0 THEN map
            ELSE IF at = {}
            THEN Append(map, [key |-> key, label |-> label,
                              sats |-> Sats(tx), count |-> 1])
            ELSE [map EXCEPT ![SetMin(at)] =
                    [key |-> key, label |-> label,
                     sats |-> map[SetMin(at)].sats + Sats(tx),
                     count |-> map[SetMin(at)].count + 1]])

\* The place of a character of a key in the collation order: the hyphen
\* sorts before the digits.
CharRank(c) ==
  IF c = "-" THEN 0
  ELSE 1 + (CHOOSE n \in 0..9 : Digit(n) = c)

\* a.localeCompare(b) for keys: negative, zero or positive.
RECURSIVE LocaleCompare(_, _)
LocaleCompare(a, b) ==
  IF a = <<>> /\ b = <<>> THEN 0
  ELSE IF a = <<>> THEN -1
  ELSE IF b = <<>> THEN 1
  ELSE IF CharRank(Head(a)) < CharRank(Head(b)) THEN -1
  ELSE IF CharRank(Head(a)) > CharRank(Head(b)) THEN 1
  ELSE LocaleCompare(Tail(a), Tail(b))

\* A plausible slip: a[0].localeCompare(b[0]), the oldest period first.
RECURSIVE InsertPeriodAscending(_, _)
InsertPeriodAscending(e, sorted) ==
  IF sorted = <<>> THEN <<e>>
  ELSE IF LocaleCompare(e.label, Head(sorted).label) >= 0
       THEN <<Head(sorted)>> \o InsertPeriodAscending(e, Tail(sorted))
       ELSE <<e>> \o sorted

\* Line 168: (a, b) => b[0].localeCompare(a[0]); e goes behind every entry
\* that does not sort after it (stable).
RECURSIVE InsertPeriod(_, _)
InsertPeriod(e, sorted) ==
  IF sorted = <<>> THEN <<e>>
  ELSE IF LocaleCompare(e.label, Head(sorted).label) <= 0
       THEN <<Head(sorted)>> \o InsertPeriod(e, Tail(sorted))
       ELSE <<e>> \o sorted

RECURSIVE SortPeriods(_, _)
SortPeriods(entries, sorted) ==
  IF entries = <<>> THEN sorted
  ELSE SortPeriods(Tail(entries), InsertPeriod(Head(entries), sorted))

\* aggregateByPeriod(transactions, period)
AggregateByPeriod(txs, period, tz) ==
  SortPeriods(CollectByPeriod(txs, period, tz, <<>>), <<>>)

\* previous > 0 ? (delta / previous) * 100 : null
PercentChange(delta, previous) ==
  IF previous > 0 THEN [null |-> FALSE, num |-> delta * 100, den |-> previous]
  ELSE NoPercent

\* previous > 0 ? ((delta / previous) * 100).toFixed(1) : null, in tenths
\* of a percent.
PercentFixed(delta, previous) ==
  IF previous > 0
  THEN LET size == IF delta < 0 THEN -delta ELSE delta
           tenths == (2 * size * 1000 + previous) \div (2 * previous)
       IN [null |-> FALSE, num |-> IF delta < 0 THEN -tenths ELSE tenths,
           den |-> 10]
  ELSE NoPercent

\* printComparison(transactions, period): what it prints.
PrintComparison(txs, period, tz) ==
  LET periods == AggregateByPeriod(txs, period, tz)
  IN IF Len(periods) < 2
     THEN [NoComparison EXCEPT !.kind = "not enough data"]
     ELSE LET current == periods[1]
              previous == periods[2]
          IN [kind |-> "delta",
              sats |-> current.sats - previous.sats,
              satsPercent |->
                PercentFixed(current.sats - previous.sats, previous.sats),
              payments |-> current.count - previous.count,
              paymentsPercent |->
                PercentFixed(current.count - previous.count, previous.count)]

\* buildJsonReport with options.compare: report.comparison, "absent" when
\* the report has no such property.
JsonComparison(txs, period, tz) ==
  LET periods == AggregateByPeriod(txs, period, tz)
  IN IF Len(periods) >= 2
     THEN LET current == periods[1]
              previous == periods[2]
          IN [kind |-> "delta",
              sats |-> current.sats - previous.sats,
              satsPercent |->
                PercentChange(current.sats - previous.sats, previous.sats),
              payments |-> current.count - previous.count,
              paymentsPercent |->
                PercentChange(current.count - previous.count, previous.count)]
     ELSE [NoComparison EXCEPT !.kind = "absent"]

----------------------------------------------------------------------------
(* Specification SpecReport: one transformer applied to one list of        *)
(* transactions                                                            *)

\* Descriptions: an essay payment, another one inside a longer text, the
\* footer, a look-alike of the site, a slug that starts in upper case, and
\* none.
PaymentUniverse ==
  { Payment(1000, <<"s", ".", "o", "/", "a">>, 5, 0),
    Payment(1999, <<"s", ".", "o", "/", "a">>, 0, 7),
    Payment(2500, <<"x", " ", "s", ".", "o", "/", "b", "-", "1", " ", "y">>, 9, 0),
    Payment(999, <<"s", ".", "o">>, 11, 0),
    Payment(3000, <<"s", "X", "o", "/", "a">>, 13, 0),
    Payment(500, <<"s", ".", "o", "/", "X", "a">>, 0, 0),
    Payment(4000, <<>>, 2, 1) }

ReportLists == UNION {[1..n -> PaymentUniverse] : n \in 0..MaxList}

\* A payment at every third of every day of more than a week.
PeriodUniverse == {Payment(1500, <<>>, t, 0) : t \in 1..MaxStamp}

\* Payments of a Friday, of the Sunday and the Monday after it and of the
\* first of February (created and not settled), and one without a
\* timestamp.
SeriesUniverse ==
  { Payment(1500, <<>>, 4, 0),
    Payment(2999, <<>>, 10, 2),
    Payment(1000, <<>>, 13, 0),
    Payment(2500, <<>>, 0, 31 * StampsPerDay + 1),
    Payment(3500, <<>>, 0, 0) }

\* One payment at any time, or a series of up to MaxPeriodList payments.
PeriodLists ==
  {<<p>> : p \in PeriodUniverse}
    \cup UNION {[1..n -> SeriesUniverse] : n \in 0..MaxPeriodList}

\* UTC-8, UTC and UTC+8.
TimeZones == {-1, 0, 1}

reportRest == <<snapshot, coreVars, dashVars, titleVars, fileVars, clearLog,
                configVars>>

slugVars == <<described, parsed, filtered, proxy>>

\* Descriptions: empty, the bare site, essays of the site, alone and inside
\* a text, the site with nothing or no slug behind the slash, two essays,
\* another site, and a site whose name ends with this one's.
Descriptions ==
  { <<>>,
    <<"s", ".", "o">>,
    <<"s", ".", "o", "/">>,
    <<"s", ".", "o", "/", "a">>,
    <<"s", ".", "o", "/", "a", "-", "1", "/", "b">>,
    <<"x", " ", "s", ".", "o", "/", "b", "-", "1", " ", "y">>,
    <<"s", ".", "o", "/", "X", "a">>,
    <<"s", ".", "o", "/", " ", "s", ".", "o", "/", "c">>,
    <<"s", ".", "o", "/", "a", " ", "s", ".", "o", "/", "b">>,
    <<"s", "X", "o", "/", "a">>,
    <<"t", ".", "o", "/", "x">>,
    <<"t", "s", ".", "o", "/", "a">> }

\* buildSummary(transactions, btcPrice)
SummaryCall ==
  /\ called = "none"
  /\ \E txs \in ReportLists, price \in {NullPrice, Price(0), Price(50000)},
        site \in {SiteUrl, <<>>} :
       /\ siteUrl' = site
       /\ reportTxs' = txs
       /\ summary' = BuildSummary(txs, price, site)
  /\ called' = "buildSummary"
  /\ byEssay' = <<>>
  /\ byPeriod' = <<>>
  /\ mode' = "none"
  /\ UNCHANGED <<tzOffset, outFormat, comparison, slugVars, reportRest>>

\* aggregateByEssay(transactions, sortBy)
EssayCall ==
  /\ called = "none"
  /\ \E txs \in ReportLists,
        sortBy \in {"sats", "count", "recent", "name", "constructor"},
        site \in {SiteUrl, <<>>} :
       /\ siteUrl' = site
       /\ reportTxs' = txs
       /\ mode' = sortBy
       /\ byEssay' = AggregateByEssay(txs, sortBy, site)
  /\ called' = "aggregateByEssay"
  /\ summary' = NoSummary
  /\ byPeriod' = <<>>
  /\ UNCHANGED <<tzOffset, outFormat, comparison, slugVars, reportRest>>

\* aggregateByPeriod(transactions, period)
PeriodCall ==
  /\ called = "none"
  /\ \E txs \in PeriodLists, period \in {"daily", "weekly", "monthly"},
        tz \in TimeZones :
       /\ reportTxs' = txs
       /\ mode' = period
       /\ tzOffset' = tz
       /\ byPeriod' = AggregateByPeriod(txs, period, tz)
  /\ called' = "aggregateByPeriod"
  /\ summary' = NoSummary
  /\ byEssay' = <<>>
  /\ UNCHANGED <<siteUrl, outFormat, comparison, slugVars, reportRest>>

\* The comparison a report puts out with options.compare: buildJsonReport
\* for the format json, printComparison for the text format.
CompareCall ==
  /\ called = "none"
  /\ \E txs \in PeriodLists, period \in {"daily", "weekly", "monthly"},
        tz \in TimeZones, f \in {"text", "json"} :
       /\ reportTxs' = txs
       /\ mode' = period
       /\ tzOffset' = tz
       /\ outFormat' = f
       /\ byPeriod' = AggregateByPeriod(txs, period, tz)
       /\ comparison' = IF f = "json" THEN JsonComparison(txs, period, tz)
                                      ELSE PrintComparison(txs, period, tz)
  /\ called' = "comparison"
  /\ summary' = NoSummary
  /\ byEssay' = <<>>
  /\ UNCHANGED <<siteUrl, slugVars, reportRest>>

\* parseEssaySlug(description, siteUrl)
SlugCall ==
  /\ called = "none"
  /\ \E d \in Descriptions, site \in {SiteUrl, <<>>} :
       /\ siteUrl' = site
       /\ described' = d
       /\ parsed' = ParseEssaySlug(d, site)
  /\ called' = "parseEssaySlug"
  /\ UNCHANGED <<reportTxs, summary, byEssay, byPeriod, mode, tzOffset,
                 outFormat, comparison, filtered, proxy, reportRest>>

\* filterV4VPayments(transactions, siteUrl)
FilterCall ==
  /\ called = "none"
  /\ \E txs \in ReportLists, site \in {SiteUrl, <<>>} :
       /\ siteUrl' = site
       /\ reportTxs' = txs
       /\ filtered' = FilterV4VPayments(txs, site)
  /\ called' = "filterV4VPayments"
  /\ UNCHANGED <<summary, byEssay, byPeriod, mode, tzOffset, outFormat,
                 comparison, described, parsed, proxy, reportRest>>

\* The `essay` parameters a wallet can send: none, slugs of lower-case
\* letters, digits and hyphens, and slugs with other characters.
EssayParams ==
  { <<>>, <<"a">>, <<"a", "-", "1">>, <<"X", "a">>, <<"a", "_", "b">>,
    <<"a", "/", "b">> }

\* 'V4V payment'
DefaultMemo == <<"V", "4", "V", " ", "p", "a", "y", "m", "e", "n", "t">>

\* essaySlug ? `${siteUrl}/${essaySlug}` : siteUrl || 'V4V payment'
Memo(site, essay) ==
  IF essay # <<>> THEN site \o <<"/">> \o essay
  ELSE IF site # <<>> THEN site
  ELSE DefaultMemo

\* The lnurl-callback handler answers a request; the description of the
\* invoice it made is then read by parseEssaySlug with the site of the CLI,
\* which is the proxy's V4V_SITE_URL.
CallbackCall ==
  /\ called = "none"
  /\ \E amount, nostr, made \in BOOLEAN, essay \in EssayParams,
        site \in {SiteUrl, <<>>} :
       LET status == IF ~amount THEN 400
                     ELSE IF nostr THEN IF made THEN 200 ELSE 502
                     ELSE IF made THEN 200 ELSE 500
           memo == IF amount /\ ~nostr /\ made THEN Memo(site, essay) ELSE <<>>
       IN /\ proxy' = CallbackRequest(amount, nostr, essay, status)
          /\ siteUrl' = site
          /\ described' = memo
          /\ parsed' = ParseEssaySlug(memo, site)
  /\ called' = "lnurl-callback"
  /\ UNCHANGED <<reportTxs, summary, byEssay, byPeriod, mode, tzOffset,
                 outFormat, comparison, filtered, reportRest>>

NextReport ==
  \/ CallbackCall
  \/ SummaryCall
  \/ EssayCall
  \/ PeriodCall
  \/ CompareCall
  \/ SlugCall
  \/ FilterCall

SpecReport == Init /\ [][NextReport]_vars

----------------------------------------------------------------------------
(* Properties *)

Hashes(s) == {s[i].payment_hash : i \in 1..Len(s)}

NoDupHash(s) ==
  \A i, j \in 1..Len(s) : i # j => s[i].payment_hash # s[j].payment_hash

\* The effective timestamp as the specification words it.
ClaimedTime(tx) ==
  IF tx.settled_at # 0 THEN tx.settled_at
  ELSE IF tx.created_at # 0 THEN tx.created_at
  ELSE 0

Descending(s) ==
  \A i \in 1..Len(s) - 1 : ClaimedTime(s[i]) >= ClaimedTime(s[i + 1])

\* res holds one record per payment_hash of all, and that record is the
\* first one of that hash in all.
FirstOccurrences(res, all) ==
  /\ NoDupHash(res)
  /\ Hashes(res) = Hashes(all)
  /\ \A k \in 1..Len(res) :
       \E i \in 1..Len(all) :
         /\ all[i] = res[k]
         /\ \A j \in 1..i - 1 : all[j].payment_hash # res[k].payment_hash

C4_RetriesUpToMax == gaveUp => attempts = 1 + maxRetries

C6_UnreachableThrows ==
  (gaveUp /\ Len(newTransactions) = 0 /\ Len(cached) = 0) =>
    /\ pc = "threw"
    /\ err = AlbyHubTimeout
    /\ err \notin WalletErrors
    /\ snapshot = preSnapshot

\* Retries ran out against an empty cache.
C6_Witness == gaveUp /\ pc = "threw" /\ retries = maxRetries

\* C7: after listTransactions threw an error that is neither a reply
\* timeout nor INTERNAL, the fetch has thrown that error, waits for no
\* backoff and has left the snapshot as it was.
C7_FatalAborts ==
  (lastErr # NoError /\ lastErr.name # "Nip47ReplyTimeoutError"
     /\ lastErr.code # "INTERNAL") =>
    /\ pc = "threw"
    /\ err = lastErr
    /\ waited = 0
    /\ snapshot = preSnapshot

\* A later batch failed for good after an earlier one had brought new data.
C7_Witness ==
  /\ pc = "threw" /\ err \in WalletErrors
  /\ batchCount >= 1
  /\ Len(newTransactions) > 0
  /\ preSnapshot.exists

\* C8: once fetchTransactions has returned and its write succeeded, the
\* snapshot carries this fetch's stamp and loads as the returned list.
C8_ReadAfterFetch ==
  (pc = "returned" /\ writeOk) =>
    /\ snapshot.exists
    /\ snapshot.updated = now
    /\ LoadTransactionCache(snapshot) = result

\* A fetch that found nothing new rewrote a non-empty snapshot.
C8_Witness ==
  /\ pc = "returned" /\ writeOk
  /\ Len(newTransactions) = 0
  /\ preSnapshot.exists /\ Len(cached) > 0
  /\ preSnapshot.updated < now

\* C9: the returned list, and the snapshot, are in descending order of the
\* effective timestamp (settled_at, else created_at, else 0).
C9_SortedDescending ==
  /\ pc = "returned" => Descending(result)
  /\ Descending(snapshot.transactions)

\* New records that arrived oldest first were merged into a cache: the
\* sort had to reorder them.
C9_Witness ==
  /\ pc = "returned" /\ writeOk
  /\ Len(result) >= 3
  /\ Len(cached) > 0
  /\ ~Descending(newTransactions \o cached)

\* C10: a command that created a client has called client.close() exactly
\* once when it ends.
C10_ClosedOnce ==
  (cmdpc \in {"returned", "threw", "exit"} /\ clientCreated) => closeCalls = 1

\* C11: at no time are two fetchTransactions invocations in flight against
\* the snapshot, and no fetch writes over a snapshot written by a fetch that
\* started after it had loaded the cache.
C11_Serialized ==
  /\ Cardinality(InFlight) <= 1
  /\ ~overwrote

\* C12: when the refresh failed, fetchEssayTitles returns the titles of the
\* titles file on disk, however old, and the empty map only when there is
\* no titles file.
C12_StaleFallback ==
  (tpc = "returned" /\ refreshFailed) =>
    titlesResult = (IF titlesFile.exists /\ titlesFile.parses
                    THEN titlesFile.titles ELSE {})

\* C13: loadTransactionCache yields a list whatever is at the snapshot
\* path: the stored list when the file is a readable JSON object whose
\* transactions are a list, and [] otherwise.
C13_LoadYieldsList ==
  observed # Undefined =>
    /\ observed.kind = "array"
    /\ observed =
         (IF fileRead.exists /\ fileRead.readable /\ Parses(fileRead)
             /\ fileRead.data.kind = "object"
             /\ fileRead.data.transactions.kind = "array"
          THEN fileRead.data.transactions
          ELSE Arr(<<>>))

\* C14: a fetch whose snapshot write failed has returned the whole merge
\* and has not thrown; and when the cache stays unavailable (nothing to
\* load, every write failing) the second fetch returns what the first fetch
\* from the empty cache returned.
C14_WriteFailureHidden ==
  /\ pc # "threw"
  /\ (pc = "returned" /\ ~writeOk) =>
       /\ FirstOccurrences(result, newTransactions \o cached)
       /\ Descending(result)
  /\ (runs = 2 /\ pc = "returned" /\ initialFile = NoFile
        /\ ~firstWriteOk /\ ~writeOk) =>
       result = firstResult

\* Both fetches found no cache, paged through the wallet and failed to
\* write.
C14_Witness ==
  /\ runs = 2 /\ pc = "returned"
  /\ initialFile = NoFile /\ ~firstWriteOk /\ ~writeOk
  /\ ~snapshot.exists
  /\ batchCount >= 1
  /\ Len(result) >= 2

\* C15: whenever a reader loads the snapshot, the file it finds is whole:
\* the previous snapshot or the new one, never an empty or cut file.
C15_AtomicSave ==
  observed # Undefined => (fileRead.exists => Parses(fileRead))

\* C16: a command whose site identifier or wallet credential is missing
\* never holds a client, never has a listTransactions request out and, if
\* it is a report, never ends as a report produced.
C16_FailsFast ==
  (cmd # "none" /\ ~(config.siteUrl /\ config.nwcConnectionString)) =>
    /\ ~clientCreated
    /\ pc = "idle"
    /\ ~(cmd = "report" /\ cmdpc = "returned")

\* The sum over the positions I of txs of floor(amount / 1000).
RECURSIVE SumFloorSats(_, _)
SumFloorSats(txs, I) ==
  IF I = {} THEN 0
  ELSE LET i == CHOOSE i \in I : TRUE
       IN (txs[i].amount \div 1000) + SumFloorSats(txs, I \ {i})

\* n / d rounded to the nearest integer, a half going up.
NearestInteger(n, d) ==
  CHOOSE k \in 0..n : 2 * d * k - d <= 2 * n /\ 2 * n < 2 * d * k + d

\* C17: buildSummary returns totalSats = the sum of floor(amount / 1000),
\* totalPayments = the length of the list and avgSats = round(totalSats /
\* totalPayments), and 0 for all three on the empty list.
C17_SummaryTotals ==
  called = "buildSummary" =>
    /\ summary.totalSats = SumFloorSats(reportTxs, 1..Len(reportTxs))
    /\ summary.totalPayments = Len(reportTxs)
    /\ Len(reportTxs) > 0 =>
         summary.avgSats = NearestInteger(summary.totalSats, Len(reportTxs))
    /\ Len(reportTxs) = 0 =>
         (summary.totalSats = 0 /\ summary.totalPayments = 0
            /\ summary.avgSats = 0)

\* Three payments, one of them not a whole number of sats, whose average
\* is rounded up.
C17_Witness ==
  /\ called = "buildSummary"
  /\ Len(reportTxs) = 3
  /\ \E i \in 1..3 : reportTxs[i].amount % 1000 # 0 /\ reportTxs[i].amount > 1000
  /\ summary.totalSats % 3 = 2
  /\ summary.avgSats * 3 > summary.totalSats

\* The positions of txs whose description attribution gives a slug.
Attributed(txs, site) ==
  {i \in 1..Len(txs) : ParseEssaySlug(txs[i].description, site) # <<>>}

\* C18: buildSummary counts a transaction as an essay payment exactly when
\* attribution yields a slug and as a general payment otherwise, so the
\* two groups add up to the totals.
C18_EssayGeneralSplit ==
  called = "buildSummary" =>
    LET all == 1..Len(reportTxs)
        E == Attributed(reportTxs, siteUrl)
    IN /\ summary.essays.payments = Cardinality(E)
       /\ summary.essays.sats = SumFloorSats(reportTxs, E)
       /\ summary.general.payments = Cardinality(all \ E)
       /\ summary.general.sats = SumFloorSats(reportTxs, all \ E)
       /\ summary.essays.sats + summary.general.sats = summary.totalSats
       /\ summary.essays.payments + summary.general.payments
            = summary.totalPayments

\* An essay payment, a footer payment and a general payment that is no
\* footer payment.
C18_Witness ==
  /\ called = "buildSummary"
  /\ summary.essays.payments = 1
  /\ summary.general.payments = 2
  /\ summary.general.sats > 0
  /\ \E i \in 1..Len(reportTxs) : IsFooterPayment(reportTxs[i].description, siteUrl)
  /\ \E i \in 1..Len(reportTxs) :
       /\ ~IsFooterPayment(reportTxs[i].description, siteUrl)
       /\ i \notin Attributed(reportTxs, siteUrl)

\* The bucket the specification gives a transaction: its slug, or the
\* reserved general bucket.
ClaimedBucket(tx, site) ==
  IF ParseEssaySlug(tx.description, site) # <<>>
  THEN ParseEssaySlug(tx.description, site)
  ELSE <<"(", "f", "o", "o", "t", "e", "r", "/", "g", "e", "n", "e", "r", "a",
         "l", ")">>

RECURSIVE SumCounts(_)
SumCounts(entries) ==
  IF entries = <<>> THEN 0 ELSE Head(entries).count + SumCounts(Tail(entries))

RECURSIVE SumBucketSats(_)
SumBucketSats(entries) ==
  IF entries = <<>> THEN 0 ELSE Head(entries).sats + SumBucketSats(Tail(entries))

\* C19: aggregateByEssay counts every transaction in exactly one bucket,
\* that of its slug or the general one: each bucket holds the count and the
\* sats of the transactions that belong to it, the counts sum to the length
\* of the input and the sats to the sum of floor(amount / 1000).
C19_EssayPartition ==
  called = "aggregateByEssay" =>
    LET all == 1..Len(reportTxs)
        Members(slug) == {i \in all : ClaimedBucket(reportTxs[i], siteUrl) = slug}
    IN /\ \A i \in all :
            Cardinality({k \in 1..Len(byEssay) :
                           byEssay[k].slug = ClaimedBucket(reportTxs[i], siteUrl)}) = 1
       /\ \A k \in 1..Len(byEssay) :
            /\ byEssay[k].count = Cardinality(Members(byEssay[k].slug))
            /\ byEssay[k].count >= 1
            /\ byEssay[k].sats = SumFloorSats(reportTxs, Members(byEssay[k].slug))
       /\ SumCounts(byEssay) = Len(reportTxs)
       /\ SumBucketSats(byEssay) = SumFloorSats(reportTxs, all)

\* Two payments of one essay and a general one.
C19_Witness ==
  /\ called = "aggregateByEssay"
  /\ Len(reportTxs) = 3
  /\ Len(byEssay) = 2
  /\ \E k \in 1..2 : byEssay[k].slug = <<"a">> /\ byEssay[k].count = 2
  /\ \E k \in 1..2 : byEssay[k].slug = FOOTER_SLUG /\ byEssay[k].sats > 0

\* C20: the weekly key of every transaction that has a timestamp is the
\* Monday of the Monday-to-Sunday week of the transaction's date: a Monday,
\* on or before that date and at most 6 days before it.
C20_WeekKeyIsMonday ==
  (called = "aggregateByPeriod" /\ mode = "weekly") =>
    \A i \in 1..Len(reportTxs) :
      LET tx == reportTxs[i]
          stamp == IF tx.settled_at # 0 THEN tx.settled_at ELSE tx.created_at
          date == (stamp + tzOffset) \div StampsPerDay
      IN stamp # 0 =>
           \E k \in 1..Len(byPeriod) :
             /\ byPeriod[k].key = WeekKey(stamp, tzOffset)
             /\ (byPeriod[k].key + EpochWeekday) % 7 = 1
             /\ byPeriod[k].key <= date
             /\ date - byPeriod[k].key <= 6

\* C21: every key of the weekly aggregation is the date of a Monday.
C21_WeeklyKeysAreMondays ==
  (called = "aggregateByPeriod" /\ mode = "weekly") =>
    \A k \in 1..Len(byPeriod) :
      /\ byPeriod[k].label = IsoDate(byPeriod[k].key)
      /\ (byPeriod[k].key + EpochWeekday) % 7 = 1

\* C22: aggregateByPeriod leaves out the transactions without a timestamp,
\* its counts sum to the number of transactions that have one, and its
\* periods come strictly most recent first.
C22_PeriodsDescending ==
  called = "aggregateByPeriod" =>
    LET timed == {i \in 1..Len(reportTxs) :
                    reportTxs[i].settled_at # 0 \/ reportTxs[i].created_at # 0}
    IN /\ SumCounts(byPeriod) = Cardinality(timed)
       /\ SumBucketSats(byPeriod) = SumFloorSats(reportTxs, timed)
       /\ \A k \in 1..Len(byPeriod) : byPeriod[k].count >= 1
       /\ \A k \in 1..(Len(byPeriod) - 1) :
            byPeriod[k].key > byPeriod[k + 1].key

\* A transaction without a timestamp between two of different periods, the
\* older one first in the input.
C22_Witness ==
  /\ called = "aggregateByPeriod"
  /\ Len(reportTxs) = 3
  /\ reportTxs[2].settled_at = 0 /\ reportTxs[2].created_at = 0
  /\ reportTxs[1].settled_at # 0
  /\ reportTxs[1].settled_at < reportTxs[3].settled_at
  /\ Len(byPeriod) = 2
  /\ byPeriod[1].label # byPeriod[2].label
  /\ byPeriod[1].count = 1 /\ byPeriod[2].count = 1

\* C23: with fewer than two periods the comparison is an explicit
\* not-enough-data result in the text and in the JSON output, with no delta
\* and no percent change.
C23_InsufficientData ==
  (called = "comparison" /\ Len(byPeriod) < 2) =>
    /\ comparison.kind = "not enough data"
    /\ comparison.satsPercent.null /\ comparison.paymentsPercent.null

\* C24: the buckets of aggregateByEssay come in descending order of sats
\* for the sort mode sats, of count for count, of the latest payment time
\* for recent and of sats for every other mode, and buckets that tie come
\* in the order in which their slugs first appear in the input.
C24_EssayOrder ==
  called = "aggregateByEssay" =>
    LET Members(slug) ==
          {i \in 1..Len(reportTxs) : ClaimedBucket(reportTxs[i], siteUrl) = slug}
        First(slug) == CHOOSE i \in Members(slug) : \A j \in Members(slug) : i <= j
        Latest(slug) ==
          CHOOSE t \in 0..MaxClock + MaxStamp :
            /\ \A i \in Members(slug) : ClaimedTime(reportTxs[i]) <= t
            /\ t = 0 \/ \E i \in Members(slug) : ClaimedTime(reportTxs[i]) = t
        Order(e) == CASE mode = "count" -> e.count
                      [] mode = "recent" -> Latest(e.slug)
                      [] OTHER -> e.sats
    IN \A k \in 1..(Len(byEssay) - 1) :
         \/ Order(byEssay[k]) > Order(byEssay[k + 1])
         \/ /\ Order(byEssay[k]) = Order(byEssay[k + 1])
            /\ First(byEssay[k].slug) < First(byEssay[k + 1].slug)

\* C25: the four USD fields of the summary are null when the BTC price is
\* null, and for every other price they are not null and equal to
\* sats / 100000000 * price.
C25_UsdFields ==
  called = "buildSummary" =>
    LET Usd(field, sats) ==
          IF summary.btcPrice.null THEN field.null
          ELSE ~field.null /\ field.e8 = sats * summary.btcPrice.usd
    IN /\ Usd(summary.totalUsd, summary.totalSats)
       /\ Usd(summary.avgUsd, summary.avgSats)
       /\ Usd(summary.essays.usd, summary.essays.sats)
       /\ Usd(summary.general.usd, summary.general.sats)

\* C25 as the code has it: the fields are null for the price 0 as well.
C25_UsdFieldsUnlessZero ==
  called = "buildSummary" =>
    LET Usd(field, sats) ==
          IF summary.btcPrice.null \/ summary.btcPrice.usd = 0 THEN field.null
          ELSE ~field.null /\ field.e8 = sats * summary.btcPrice.usd
    IN /\ Usd(summary.totalUsd, summary.totalSats)
       /\ Usd(summary.avgUsd, summary.avgSats)
       /\ Usd(summary.essays.usd, summary.essays.sats)
       /\ Usd(summary.general.usd, summary.general.sats)

\* A summary of essay and general payments at a price of 50000 dollars.
C25_Witness ==
  /\ called = "buildSummary"
  /\ ~summary.btcPrice.null /\ summary.btcPrice.usd = 50000
  /\ summary.essays.sats > 0 /\ summary.general.sats > 0
  /\ summary.totalUsd.e8 = summary.totalSats * 50000
  /\ summary.avgSats # summary.totalSats
  /\ ~summary.avgUsd.null

\* The places of a description where the site, a slash and a character of
\* a slug follow one another.
Occurrences(d, site) ==
  {i \in 1..Len(d) :
     /\ i + Len(site) + 1 <= Len(d)
     /\ \A k \in 1..Len(site) : d[i + k - 1] = site[k]
     /\ d[i + Len(site)] = "/"
     /\ d[i + Len(site) + 1] \in SlugChars}

\* C26: parseEssaySlug returns the run of slug characters behind the first
\* place where the site and a slash are followed by one, and null (written
\* <<>>) when there is no such place: for no description, for the bare site
\* and for another site.
C26_SlugParsed ==
  (called = "parseEssaySlug" /\ siteUrl # <<>>) =>
    IF Occurrences(described, siteUrl) = {}
    THEN parsed = <<>>
    ELSE LET first == CHOOSE i \in Occurrences(described, siteUrl) :
                        \A j \in Occurrences(described, siteUrl) : i <= j
             from == first + Len(siteUrl) + 1
             to == from + Len(parsed) - 1
         IN /\ parsed # <<>>
            /\ to <= Len(described)
            /\ parsed = [k \in 1..Len(parsed) |-> described[from + k - 1]]
            /\ \A k \in 1..Len(parsed) : parsed[k] \in SlugChars
            /\ to = Len(described) \/ described[to + 1] \notin SlugChars

\* The slug of the second place, the first one having no slug behind its
\* slash.
C26_Witness ==
  /\ called = "parseEssaySlug"
  /\ siteUrl = <<"s", ".", "o">>
  /\ described = <<"s", ".", "o", "/", " ", "s", ".", "o", "/", "c">>
  /\ parsed = <<"c">>

\* C27: filterV4VPayments keeps exactly the transactions whose description
\* contains the site (none when no site is set), in their order, and so
\* keeps every transaction for which parseEssaySlug returns a slug.
C27_FilterLooser ==
  called = "filterV4VPayments" =>
    LET Contains(d) ==
          \E i \in 1..Len(d) :
            /\ i + Len(siteUrl) - 1 <= Len(d)
            /\ \A k \in 1..Len(siteUrl) : d[i + k - 1] = siteUrl[k]
        kept == {i \in 1..Len(reportTxs) :
                   siteUrl # <<>> /\ Contains(reportTxs[i].description)}
    IN /\ Len(filtered) = Cardinality(kept)
       /\ \E f \in [1..Len(filtered) -> 1..(Len(reportTxs) + 1)] :
            /\ \A k \in 1..Len(filtered) : f[k] \in kept /\ filtered[k] = reportTxs[f[k]]
            /\ \A k \in 1..(Len(filtered) - 1) : f[k] < f[k + 1]
       /\ siteUrl # <<>> =>
            \A i \in 1..Len(reportTxs) :
              ParseEssaySlug(reportTxs[i].description, siteUrl) # <<>> =>
                i \in kept

\* An essay payment and the footer payment are kept, a payment of a
\* look-alike site is dropped.
C27_Witness ==
  /\ called = "filterV4VPayments"
  /\ Len(reportTxs) = 3
  /\ Len(filtered) = 2
  /\ \E k \in 1..2 : ParseEssaySlug(filtered[k].description, siteUrl) # <<>>
  /\ \E k \in 1..2 : filtered[k].description = siteUrl
  /\ \E i \in 1..3 : reportTxs[i].description = <<"s", "X", "o", "/", "a">>

\* C28: clearCache returns true exactly when a snapshot file existed, and
\* removes it; right after a clear loadTransactionCache returns [] and
\* getCacheStats returns null, and a clear that follows a clear returns
\* false.
C28_ClearReturnsExisted ==
  \A k \in 1..Len(clearLog) :
    clearLog[k].op = "clear" =>
      /\ clearLog[k].returned = clearLog[k].existed
      /\ clearLog[k].gone
      /\ clearLog[k].load = Arr(<<>>)
      /\ clearLog[k].stats.null
      /\ (k > 1 /\ clearLog[k - 1].op = "clear") => ~clearLog[k].returned

\* C28 with the failing removal set apart: clearCache returns true exactly
\* when a file existed and its removal succeeded; after a clear that
\* returned true or found no file, the file is gone, loadTransactionCache
\* returns [], getCacheStats returns null and a clear that follows returns
\* false; a clear whose removal failed returns false and leaves the file.
C28_ClearReturnsRemoved ==
  \A k \in 1..Len(clearLog) :
    clearLog[k].op = "clear" =>
      /\ clearLog[k].returned = (clearLog[k].existed /\ clearLog[k].ok)
      /\ (clearLog[k].returned \/ ~clearLog[k].existed) =>
           /\ clearLog[k].gone
           /\ clearLog[k].load = Arr(<<>>)
           /\ clearLog[k].stats.null
           /\ (k < Len(clearLog) /\ clearLog[k + 1].op = "clear") =>
                ~clearLog[k + 1].returned
      /\ (clearLog[k].existed /\ ~clearLog[k].ok) =>
           ~clearLog[k].returned /\ ~clearLog[k].gone

\* A snapshot of two transactions is saved, cleared, and cleared again.
C28_Witness ==
  /\ Len(clearLog) = 3
  /\ clearLog[1].op = "save" /\ clearLog[1].ok
  /\ clearLog[1].stats = [null |-> FALSE, totalTransactions |-> 2]
  /\ clearLog[2].op = "clear" /\ clearLog[2].returned
  /\ clearLog[2].load = Arr(<<>>) /\ clearLog[2].stats.null
  /\ clearLog[3].op = "clear" /\ ~clearLog[3].returned

\* C29: loadTitlesCache returns the stored titles exactly when the titles
\* file exists, parses and is younger than the TTL (now minus the fetched
\* stamp strictly below it), and null in every other case.
C29_TitlesFresh ==
  loaded.called =>
    IF /\ loaded.file.exists
       /\ loaded.file.parses
       /\ loaded.at - loaded.file.fetched < titlesCacheTtl
    THEN loaded.result = [found |-> TRUE, titles |-> loaded.file.titles]
    ELSE ~loaded.result.found

\* A file one tick short of the TTL gives its titles.
C29_Witness ==
  /\ loaded.called
  /\ loaded.file.exists /\ loaded.file.parses
  /\ loaded.at - loaded.file.fetched = titlesCacheTtl - 1
  /\ loaded.result.found
  /\ loaded.result.titles = {"essay-a", "essay-b"}

\* C30: with V4V_MAX_BATCHES not set, CONFIG.maxBatches is 20 and a fetch
\* requests at most 20 batches.
C30_DefaultMaxBatches ==
  (configMaxBatches # 0 /\ ~envMaxBatches.set) =>
    /\ configMaxBatches = 20
    /\ requested <= 20

----------------------------------------------------------------------------
(* Paging *)

\* The last request of this fetch asked for the current offset.
LastRequestAt(off) == Len(issued) > 0 /\ issued[Len(issued)].offset = off

\* The fetch returned on the last response: no request followed it and the
\* offset did not advance.
PagingStopped == pc = "returned" /\ LastRequestAt(offset)

Terminates == (pc \in {"request", "backoff", "delay"}) ~> Settled

\* C32 as stated: a fetch processes at most maxBatches batches, makes at
\* most maxBatches * maxRetries listTransactions calls, adds at most
\* maxBatches * batchSize new transactions, and returns or throws.
C32_BoundedWork ==
  /\ [](/\ handled <= maxBatches
        /\ Len(issued) <= maxBatches * maxRetries
        /\ Len(newTransactions) <= maxBatches * batchSize)
  /\ Terminates

\* C32 amended: the new transactions are at most the records of the
\* processed batches, hence at most maxBatches * batchSize when the wallet
\* returned no more records than were asked for.
C32_BoundedWorkWithinLimit ==
  /\ [](/\ handled <= maxBatches
        /\ Len(issued) <= maxBatches * maxRetries
        /\ Len(newTransactions) <= received
        /\ received <= handled * batchSize =>
             Len(newTransactions) <= maxBatches * batchSize)
  /\ Terminates

\* A fetch returned after maxBatches full batches of new payments, each
\* received on the last call its retries allowed.
C32_Witness ==
  /\ pc = "returned"
  /\ handled = maxBatches
  /\ Len(issued) = maxBatches * maxRetries
  /\ received = maxBatches * batchSize
  /\ Len(newTransactions) = maxBatches * batchSize

----------------------------------------------------------------------------
(* The accumulator *)

\* The records this fetch has received from the wallet's listing, in the
\* order it received them.
Received == SubSeq(wallet, 1, received)

\* The maximum effective timestamp of the cache as it was when the fetch
\* loaded it, 0 for an empty cache.
LatestAtLoad ==
  LET atLoad == LoadTransactionCache(preSnapshot)
  IN IF atLoad = <<>> THEN 0
     ELSE SetMax({EffTime(atLoad[i]) : i \in 1..Len(atLoad)})

\* C33: the accumulator holds, in the order received, exactly the received
\* transactions whose effective timestamp is above the latestCached of load
\* time, and the horizon the pipeline compares with stays that one.
C33_NewExactly ==
  pc # "idle" =>
    /\ newTransactions = SelectSeq(Received, LAMBDA tx : EffTime(tx) > LatestAtLoad)
    /\ LatestCached(cached) = LatestAtLoad

\* Over a non-empty cache a fetch took two new payments from its first
\* batch and left out a payment of the second batch whose timestamp is the
\* horizon itself.
C33_Witness ==
  /\ pc = "returned"
  /\ Len(cached) > 0
  /\ handled = 2
  /\ Len(newTransactions) = 2
  /\ received = 3
  /\ EffTime(wallet[3]) = LatestAtLoad
  /\ EffTime(newTransactions[1]) > LatestAtLoad

----------------------------------------------------------------------------
(* Precedence of the new copy *)

\* The records of a list that carry payment_hash h.
RecordsOf(list, h) == {list[i] : i \in {j \in 1..Len(list) : list[j].payment_hash = h}}

\* The first record with payment_hash h that this fetch gathered.
FirstNew(h) ==
  newTransactions[SetMin({i \in 1..Len(newTransactions) :
                            newTransactions[i].payment_hash = h})]

\* The payment hashes that are both newly fetched and cached.
SharedHashes == Hashes(newTransactions) \cap Hashes(cached)

----------------------------------------------------------------------------
(* Completeness of one fetch *)

Range(list) == {list[i] : i \in 1..Len(list)}

\* The listing fits within the batch cap.
FitsCap(listing) == Len(listing) <= maxBatches * batchSize

\* C35: after an error-free fetch against a listing in any order that fits
\* within the batch cap, every listed transaction whose effective timestamp
\* is above latestCached is in the returned list.
C35_ToleratesReordering ==
  (pc = "returned" /\ FitsCap(wallet)) =>
    \A i \in 1..Len(wallet) :
      EffTime(wallet[i]) > LatestAtLoad => wallet[i] \in Range(result)

----------------------------------------------------------------------------
(* The sequence of requests *)

\* Every request so far asks for incoming transactions, batchSize of them;
\* the first at offset 0, each later one at the offset of the one before or
\* batchSize further.
RequestsInSequence ==
  /\ \A k \in 1..Len(issued) :
       issued[k].type = "incoming" /\ issued[k].limit = batchSize
  /\ Len(issued) > 0 => issued[1].offset = 0
  /\ \A k \in 1..Len(issued) - 1 :
       issued[k + 1].offset \in {issued[k].offset, issued[k].offset + batchSize}

\* This step sends a request while the fetch goes on.
SendsNext == Len(issued) > 0 /\ issued' # issued /\ Len(issued') > 1

\* A step of a fetch: a request is sent only when none is outstanding, as
\* the one request more; after a backoff it repeats the offset; the offset
\* moves only when a full batch is processed, by batchSize, into the batch
\* delay; and a request for a further offset is sent only out of that delay.
StepInSequence ==
  /\ SendsNext =>
       /\ pc \in {"backoff", "delay"} /\ pc' = "request"
       /\ issued' = Append(issued, Request(offset))
       /\ pc = "backoff" => Request(offset) = issued[Len(issued)]
       /\ Request(offset) # issued[Len(issued)] => pc = "delay"
  /\ (pc = "request" /\ offset' # offset) =>
       /\ offset' = offset + batchSize
       /\ handled' = handled + 1
       /\ lastBatch'.length = batchSize
       /\ pc' = "delay"
  /\ (pc # "request" /\ pc' \in {"backoff", "delay", "request"}) =>
       offset' = offset \/ (pc \in {"idle", "returned", "threw"} /\ offset' = 0)

\* C36: the requests of a fetch go out one at a time: each asks for type
\* 'incoming' and limit batchSize, the first at offset 0, a retry at the
\* same offset, the next batch batchSize further and only after a full
\* batch was processed and the batch delay was waited for.
C36_Sequential == []RequestsInSequence /\ [][StepInSequence]_vars

\* A fetch whose first call timed out got a full batch on the retry and,
\* the batch delay over, asks for the next batch.
C36_Witness ==
  /\ pc = "request"
  /\ Len(issued) = 3
  /\ issued[2].offset = 0
  /\ issued[3].offset = batchSize
  /\ handled = 1

----------------------------------------------------------------------------
(* Completeness across fetches *)

\* C37: when a fetch has returned and written its snapshot, the snapshot
\* holds every payment the wallet lists, a payment with the timestamp of
\* the newest cached one included.
C37_NoPaymentMissed ==
  (pc = "returned" /\ writeOk /\ FitsCap(wallet)) =>
    Range(wallet) \subseteq Range(snapshot.transactions)

\* The listed transactions newer than the cache horizon that held before
\* the first fetch.
NewerThanInitial ==
  {tx \in Range(wallet) :
     EffTime(tx) > LatestCached(LoadTransactionCache(initialFile))}

\* The first fetch saved a result that lacks some of them.
FirstStoppedEarly ==
  /\ firstWriteOk
  /\ ~(NewerThanInitial \subseteq Range(firstLeft.transactions))

\* C38: after a fetch that stopped early and saved its partial result, an
\* error-free fetch against the same newest-first listing leaves a snapshot
\* with every listed transaction newer than the horizon that held before
\* the first fetch.
C38_Repaired ==
  (runs = 2 /\ pc = "returned" /\ writeOk /\ FirstStoppedEarly) =>
    NewerThanInitial \subseteq Range(snapshot.transactions)

----------------------------------------------------------------------------
(* Transactions without a timestamp *)

Timed(tx) == tx.settled_at # 0 \/ tx.created_at # 0

\* C39: no transaction without settled_at and created_at is among the new
\* transactions of a fetch, in a returned list or in the snapshot.
C39_UntimedNeverNew ==
  \A tx \in Range(newTransactions) \cup Range(result)
              \cup Range(snapshot.transactions) : Timed(tx)

\* Over a non-empty cache a fetch received a batch with a transaction that
\* has no timestamp next to a new payment, and wrote its result.
C39_Witness ==
  /\ pc = "returned"
  /\ writeOk
  /\ Len(cached) > 0
  /\ lastBatch.length > 1
  /\ lastBatch.lowest = 0
  /\ lastBatch.oldest > LatestCached(cached)
  /\ Len(newTransactions) > 0

----------------------------------------------------------------------------
(* Attribution through the payment proxy *)

\* The proxy made an invoice itself: the request had an amount and was no
\* zap, and V4V_SITE_URL is set.
InvoiceMade ==
  /\ called = "lnurl-callback"
  /\ proxy.amount /\ ~proxy.nostr /\ proxy.status = 200
  /\ siteUrl # <<>>

\* C40: the invoice of a request with essay slug s is described as
\* siteUrl/s and parseEssaySlug reads s back from it; the invoice of a
\* request without essay is described as the bare site, which goes to the
\* general bucket.
C40_RoundTrip ==
  InvoiceMade =>
    IF proxy.essay # <<>>
    THEN /\ described = siteUrl \o <<"/">> \o proxy.essay
         /\ parsed = proxy.essay
    ELSE /\ described = siteUrl
         /\ BucketOf([description |-> described], siteUrl) = FOOTER_SLUG

====
